---------------------------- MODULE Spec2Model ----------------------------
(***************************************************************************)
(* A model of the goice STUN transaction agent (package stun, Agent) and   *)
(* of the synchronous send path of the ICE server socket (package ice,     *)
(* stunServerSock / turnServerSock), and of the way the read task of the   *)
(* server socket dispatches the datagrams it receives.                     *)
(*                                                                         *)
(* Agent and socket are concurrent objects.  Every goroutine is a thread with a        *)
(* program counter; a step is the code between two points where another    *)
(* goroutine can observe or change shared state (a mutex acquisition, a     *)
(* channel operation, an unsynchronised read or write of a field).         *)
(***************************************************************************)
EXTENDS Naturals, Sequences, FiniteSets

(***************************************************************************)
(* Bounds of the model.                                                    *)
(***************************************************************************)
\* the number of agent operations (Start, Stop, Process, Collect, Close)
\* that are begun in one behaviour
MaxOps == 3
\* deadlines and collection times range over 0..MaxTime
MaxTime == 1
\* the number of synchronous sends that are begun in one behaviour
MaxCalls == 2
\* the number of datagrams the read task receives in one behaviour
MaxRecv == 1
\* the number of datagrams the read task handles in one behaviour of the
\* dispatch model
MaxIn == 2
\* the number of operations the layer above the socket performs in one
\* behaviour of the dispatch model
MaxApp == 2
\* the clock of the dispatch model ranges over 0..MaxClock
MaxClock == 2
\* the number of times the keepalive goroutine calls keepAlive in one
\* behaviour of the refresh model
MaxKeep == 2
\* the number of requests refreshRequest builds in one behaviour of the
\* refresh model
MaxRefresh == 3
\* the number of calls on one message in one behaviour of the codec model
MaxCodecOps == 3

Threads == {"t1", "t2"}
TxIds == {"idA", "idB"}
Times == 0..MaxTime
OpNos == 1..MaxOps
\* the errors a caller passes to StopWithError; Stop passes ErrTransactionStopped
StopErrs == {"ErrTransactionStopped", "ErrCustom"}

VARIABLES
    \* ---- stun.Agent (src/unnamed/part_001) ----
    transactions,   \* Agent.transactions: id -> agentTransaction or NoTx
    closed,         \* Agent.closed
    mux,            \* Agent.mux: "free" or the thread that holds it
    zeroHandler,    \* Agent.zeroHandler # nil
    apc,            \* per thread: where it is in its agent call
    aop,            \* per thread: the call and its arguments
    aloc,           \* per thread: the locals of the call (t, exists/ok, toCall)
    aret,           \* per thread: what the last call returned ("none" while running)
    calls,          \* per handler: the events HandleEvent was invoked with
    zeroCalls,      \* the events the default handler was invoked with
    started,        \* per handler: the registration a successful Start made
    nOps,           \* operations begun so far
    aCrashed,       \* a nil dereference (panic) killed the process
    \* ---- ice.stunServerSock (src/unnamed/part_002) ----
    waiters,        \* stunServerSock.waiters: transaction id -> channel, 0: no entry
    chClosed,       \* the waiter channels that close(ch) was called on
    stoped,         \* stunServerSock.stoped
    connClosed,     \* s.c.Close() was called
    sendClosed,     \* close(s.sendchan) was called
    sendchan,       \* the contents of stunServerSock.sendchan
    sent,           \* what the write task has written to the connection
    cpc,            \* per caller: where it is in sendStunMessageSync
    cop,            \* per caller: the call, its arguments and its wait channel
    cret,           \* per caller: what the last call returned
    rpc,            \* the read task: where it is
    rmsg,           \* the read task: the message it is handling
    rch,            \* the read task: the waiter channel it took from the map
    kpc,            \* the goroutine that calls Close: where it is
    kcur,           \* Close: the key and channel the range statement produced
    ksnap,          \* Close: the entries of the map when the range began
    kvisited,       \* Close: the entries the range has produced
    nCalls,         \* synchronous sends begun so far
    nRecv,          \* datagrams received so far
    sCrashed,       \* a panic killed the process
    \* ---- the read task's dispatch (src/unnamed/part_002, ----
    \* ---- src/ice/turnserversock.go)                       ----
    mode,                   \* stunServerSock.mode
    channelNumber2Address,  \* stunServerSock.channelNumber2Address, "none": no entry
    address2ChannelNumber,  \* stunServerSock.address2ChannelNumber, 0: no entry
    cachedResponse,         \* stunServerSock.cachedResponse, NoCached: no entry
    now,                    \* time.Now()
    parked,         \* the waiter channels a synchronous caller is receiving on
    wire,           \* the (data, to) pairs sendData has put on sendchan
    delivered,      \* the responses handed to waiter channels
    cbStun,         \* the calls of the upper layer's RecieveStunMessage
    cbData,         \* the calls of the upper layer's ReceiveData
    appRet,         \* what the upper layer's last operation returned
    tPanic,         \* a panic in the read task killed the process
    tBlocked,       \* the read task waits for a receiver on a waiter channel
    nIn,            \* datagrams handled so far
    nApp,           \* operations of the upper layer so far
    \* ---- turnServerSock's keepalive and refresh goroutines ----
    \* ---- (src/ice/turnserversock.go)                       ----
    stopchan,       \* turnServerSock.stopchan: "open" or "closed"
    lifetime,       \* turnServerSockConfig.lifetime
    nonce,          \* turnServerSockConfig.nonce
    finished,       \* FinishNegotiation has been called
    kaPc,           \* where the keepalive goroutine of StartRefresh is
    nKeep,          \* calls of keepAlive so far
    rfPc,           \* where the refresh goroutine of StartRefresh is
    rfLoop,         \* the refresh goroutine is the periodic one
    rfEvery,        \* the duration of the timer in the refresh loop's select
    rfRes,          \* res, err of sendStunMessageSync in refreshRequest
    rlog,           \* the requests refreshRequest has built
    \* ---- the attribute codecs (src/stun/errorcode.go, ----
    \* ---- src/turn/rsrvtoken.go)                       ----
    codecIn,        \* the value handed to AddTo
    codecMsg,       \* the stun.Message: its attributes in order
    codecErr,       \* the error the last call returned
    codecCode,      \* the ErrorCodeAttribute GetFrom decodes into
    codecToken,     \* the ReservationToken GetFrom decodes into
    codecPanic,     \* a call panicked
    codecOps        \* the calls made so far

sockVars == <<waiters, chClosed, stoped, connClosed, sendClosed, sendchan, sent,
              cpc, cop, cret, rpc, rmsg, rch, kpc, kcur, ksnap, kvisited,
              nCalls, nRecv, sCrashed>>

\* the socket state but for the waiter map, which the dispatch model shares
sockRest == <<chClosed, stoped, connClosed, sendClosed, sendchan, sent,
              cpc, cop, cret, rpc, rmsg, rch, kpc, kcur, ksnap, kvisited,
              nCalls, nRecv, sCrashed>>

serveVars == <<mode, channelNumber2Address, address2ChannelNumber,
               cachedResponse, now, parked, wire, delivered, cbStun, cbData,
               appRet, tPanic, tBlocked, nIn, nApp>>

turnVars == <<stopchan, lifetime, nonce, finished, kaPc, nKeep, rfPc, rfLoop,
              rfEvery, rfRes, rlog>>

codecVars == <<codecIn, codecMsg, codecErr, codecCode, codecToken, codecPanic,
               codecOps>>

restVars == <<turnVars, codecVars>>

agentVars == <<transactions, closed, mux, zeroHandler, apc, aop, aloc, aret,
               calls, zeroCalls, started, nOps, aCrashed>>

vars == <<transactions, closed, mux, zeroHandler, apc, aop, aloc, aret,
          calls, zeroCalls, started, nOps, aCrashed,
          waiters, chClosed, stoped, connClosed, sendClosed, sendchan, sent,
          cpc, cop, cret, rpc, rmsg, rch, kpc, kcur, ksnap, kvisited,
          nCalls, nRecv, sCrashed,
          mode, channelNumber2Address, address2ChannelNumber,
          cachedResponse, now, parked, wire, delivered, cbStun, cbData,
          appRet, tPanic, tBlocked, nIn, nApp,
          stopchan, lifetime, nonce, finished, kaPc, nKeep, rfPc, rfLoop,
          rfEvery, rfRes, rlog,
          codecIn, codecMsg, codecErr, codecCode, codecToken, codecPanic,
          codecOps>>

(***************************************************************************)
(* stun.Agent                                                              *)
(***************************************************************************)
\* a slot of the transactions map that holds nothing
NoTx == [h |-> 0, deadline |-> 0]
\* a handler that never was registered
NoReg == [id |-> "none", deadline |-> 0]
NoOp == [name |-> "none", id |-> "idA", deadline |-> 0, h |-> 0,
         err |-> "nil", gcTime |-> 0, no |-> 0, lockedClosed |-> FALSE,
         zh |-> FALSE]
NoLoc == [exists |-> FALSE, toCall |-> {}, removed |-> {}]

\* Event{Message: m, Error: err}; a message is named by the number of the
\* Process call that carries it (0: no message)
Event(m, err) == [msg |-> m, err |-> err]

\* the handlers registered in the map
Registered == {transactions[id].h : id \in {i \in TxIds : transactions[i] # NoTx}}

\* HandleEvent is running in thread t
InHandler(t) == apc[t] \in {"stop_handler", "process_handler", "zero_handler",
                            "collect_handler", "close_handler"}

AgentInit ==
    /\ transactions = [id \in TxIds |-> NoTx]
    /\ closed = FALSE
    /\ mux = "free"
    /\ zeroHandler \in BOOLEAN
    /\ apc = [t \in Threads |-> "idle"]
    /\ aop = [t \in Threads |-> NoOp]
    /\ aloc = [t \in Threads |-> NoLoc]
    /\ aret = [t \in Threads |-> "none"]
    /\ calls = [h \in OpNos |-> <<>>]
    /\ zeroCalls = <<>>
    /\ started = [h \in OpNos |-> NoReg]
    /\ nOps = 0
    /\ aCrashed = FALSE

\* a goroutine calls one of the agent's methods with some arguments and gets
\* past its first statement, a.mux.Lock()
Begin(t) ==
    /\ ~aCrashed
    /\ UNCHANGED <<sockVars, serveVars, restVars>>
    /\ apc[t] = "idle"
    /\ nOps < MaxOps
    /\ mux = "free"
    /\ mux' = t
    /\ \E name \in {"Start", "Stop", "Process", "Collect", "Close"}, id \in TxIds,
          d \in Times, e \in StopErrs :
          /\ aop' = [aop EXCEPT ![t] =
                    [name |-> name,
                     id |-> IF name \in {"Start", "Stop", "Process"} THEN id ELSE "idA",
                     deadline |-> IF name = "Start" THEN d ELSE 0,
                     h |-> IF name = "Start" THEN nOps + 1 ELSE 0,
                     err |-> IF name = "Stop" THEN e ELSE "nil",
                     gcTime |-> IF name = "Collect" THEN d ELSE 0,
                     no |-> nOps + 1,
                     lockedClosed |-> closed,
                     zh |-> zeroHandler]]
          /\ apc' = [apc EXCEPT ![t] =
                       CASE name = "Start" -> "start_body"
                         [] name = "Stop" -> "stop_body"
                         [] name = "Process" -> "process_body"
                         [] name = "Collect" -> "collect_body"
                         [] OTHER -> "close_body"]
    /\ nOps' = nOps + 1
    /\ aret' = [aret EXCEPT ![t] = "none"]
    /\ UNCHANGED <<transactions, closed, zeroHandler, aloc, calls, zeroCalls,
                   started, aCrashed>>

\* the call returns r
Return(t, r) ==
    /\ apc' = [apc EXCEPT ![t] = "idle"]
    /\ aret' = [aret EXCEPT ![t] = r]
    /\ aop' = [aop EXCEPT ![t] = NoOp]
    /\ aloc' = [aloc EXCEPT ![t] = NoLoc]

\* `if a.closed { a.mux.Unlock(); return ErrAgentClosed }`
ReturnClosed(t) ==
    /\ mux' = "free"
    /\ Return(t, "ErrAgentClosed")
    /\ UNCHANGED <<transactions, closed, zeroHandler, calls,
                   zeroCalls, started, nOps, aCrashed>>


\* h.HandleEvent(e): the handler starts to run
Invoke(h, e) == calls' = [calls EXCEPT ![h] = Append(@, e)]

\* Start registers [h, deadline] under id and returns nil
Register(t) ==
    /\ transactions' = [transactions EXCEPT ![aop[t].id] =
                          [h |-> aop[t].h, deadline |-> aop[t].deadline]]
    /\ started' = [started EXCEPT ![aop[t].h] =
                     [id |-> aop[t].id, deadline |-> aop[t].deadline]]
    /\ mux' = "free"
    /\ Return(t, "nil")
    /\ UNCHANGED <<closed, zeroHandler, calls, zeroCalls, nOps, aCrashed>>

\* `if exists { return ErrTransactionExists }`
ReturnExists(t) ==
    /\ mux' = "free"
    /\ Return(t, "ErrTransactionExists")
    /\ UNCHANGED <<transactions, closed, zeroHandler, calls, zeroCalls,
                   started, nOps, aCrashed>>

\* a mutation of StartBody: no test of a.closed
StartBodyIgnoreClosed(t) ==
    /\ ~aCrashed
    /\ UNCHANGED <<sockVars, serveVars, restVars>>
    /\ apc[t] = "start_body"
    /\ IF transactions[aop[t].id] # NoTx THEN ReturnExists(t) ELSE Register(t)

\* a mutation of StartBody: no test whether the id is registered already
StartBodyOverwrite(t) ==
    /\ ~aCrashed
    /\ UNCHANGED <<sockVars, serveVars, restVars>>
    /\ apc[t] = "start_body"
    /\ IF closed THEN ReturnClosed(t) ELSE Register(t)

\* Agent.Start between Lock and the deferred Unlock
StartBody(t) ==
    /\ ~aCrashed
    /\ UNCHANGED <<sockVars, serveVars, restVars>>
    /\ apc[t] = "start_body"
    /\ IF closed
         THEN ReturnClosed(t)
         ELSE IF transactions[aop[t].id] # NoTx
           THEN ReturnExists(t)
           ELSE Register(t)

\* a mutation of LookupAndDelete: the lookup without the delete
LookupAndKeep(t, next) ==
    /\ aloc' = [aloc EXCEPT ![t] =
                  [exists |-> transactions[aop[t].id] # NoTx,
                   toCall |-> IF transactions[aop[t].id] # NoTx
                                THEN {transactions[aop[t].id].h} ELSE {},
                   removed |-> IF transactions[aop[t].id] # NoTx
                                 THEN {transactions[aop[t].id].h} ELSE {}]]
    /\ mux' = "free"
    /\ apc' = [apc EXCEPT ![t] = next]
    /\ UNCHANGED <<transactions, closed, zeroHandler, aop, aret, calls,
                   zeroCalls, started, nOps, aCrashed>>

\* `t, exists := a.transactions[id]; delete(a.transactions, id); a.mux.Unlock()`,
\* the locked part of StopWithError and of Process
LookupAndDelete(t, next) ==
    /\ aloc' = [aloc EXCEPT ![t] =
                  [exists |-> transactions[aop[t].id] # NoTx,
                   toCall |-> IF transactions[aop[t].id] # NoTx
                                THEN {transactions[aop[t].id].h} ELSE {},
                   removed |-> IF transactions[aop[t].id] # NoTx
                                 THEN {transactions[aop[t].id].h} ELSE {}]]
    /\ transactions' = [transactions EXCEPT ![aop[t].id] = NoTx]
    /\ mux' = "free"
    /\ apc' = [apc EXCEPT ![t] = next]
    /\ UNCHANGED <<closed, zeroHandler, aop, aret, calls, zeroCalls, started,
                   nOps, aCrashed>>

\* Agent.StopWithError, the part under the mutex
StopBody(t) ==
    /\ ~aCrashed
    /\ UNCHANGED <<sockVars, serveVars, restVars>>
    /\ apc[t] = "stop_body"
    /\ IF closed THEN ReturnClosed(t) ELSE LookupAndDelete(t, "stop_after")

\* a mutation of StopAfter: the handler gets ErrTransactionStopped whatever err is
StopAfterStopped(t) ==
    /\ ~aCrashed
    /\ UNCHANGED <<sockVars, serveVars, restVars>>
    /\ apc[t] = "stop_after"
    /\ IF ~aloc[t].exists
         THEN /\ Return(t, "ErrTransactionNotExists")
              /\ UNCHANGED <<transactions, closed, mux, zeroHandler, calls,
                             zeroCalls, started, nOps, aCrashed>>
         ELSE /\ \E h \in aloc[t].toCall : Invoke(h, Event(0, "ErrTransactionStopped"))
              /\ aloc' = [aloc EXCEPT ![t].toCall = {}]
              /\ apc' = [apc EXCEPT ![t] = "stop_handler"]
              /\ UNCHANGED <<transactions, closed, mux, zeroHandler, aop, aret,
                             zeroCalls, started, nOps, aCrashed>>

\* Agent.StopWithError after Unlock: `if !exists {return ErrTransactionNotExists}`,
\* then t.h.HandleEvent(Event{Error: err})
StopAfter(t) ==
    /\ ~aCrashed
    /\ UNCHANGED <<sockVars, serveVars, restVars>>
    /\ apc[t] = "stop_after"
    /\ IF ~aloc[t].exists
         THEN /\ Return(t, "ErrTransactionNotExists")
              /\ UNCHANGED <<transactions, closed, mux, zeroHandler,
                             calls, zeroCalls, started, nOps, aCrashed>>
         ELSE /\ \E h \in aloc[t].toCall : Invoke(h, Event(0, aop[t].err))
              /\ aloc' = [aloc EXCEPT ![t].toCall = {}]
              /\ apc' = [apc EXCEPT ![t] = "stop_handler"]
              /\ UNCHANGED <<transactions, closed, mux, zeroHandler, aop, aret,
                             zeroCalls, started, nOps, aCrashed>>

\* Agent.Process, the part under the mutex
ProcessBody(t) ==
    /\ ~aCrashed
    /\ UNCHANGED <<sockVars, serveVars, restVars>>
    /\ apc[t] = "process_body"
    /\ IF closed THEN ReturnClosed(t) ELSE LookupAndDelete(t, "process_after")

\* Agent.Process after Unlock: `if ok {t.h.HandleEvent(e)} else if
\* a.zeroHandler != nil {...}`; the field is read without the mutex
ProcessAfter(t) ==
    /\ ~aCrashed
    /\ UNCHANGED <<sockVars, serveVars, restVars>>
    /\ apc[t] = "process_after"
    /\ IF aloc[t].exists
         THEN /\ \E h \in aloc[t].toCall : Invoke(h, Event(aop[t].no, "nil"))
              /\ aloc' = [aloc EXCEPT ![t].toCall = {}]
              /\ apc' = [apc EXCEPT ![t] = "process_handler"]
              /\ UNCHANGED <<transactions, closed, mux, zeroHandler, aop, aret,
                             zeroCalls, started, nOps, aCrashed>>
         ELSE IF zeroHandler
           THEN /\ apc' = [apc EXCEPT ![t] = "process_zero"]
                /\ UNCHANGED <<transactions, closed, mux, zeroHandler, aop, aloc,
                               aret, calls, zeroCalls, started, nOps, aCrashed>>
           ELSE /\ Return(t, "nil")
                /\ UNCHANGED <<transactions, closed, mux, zeroHandler,
                               calls, zeroCalls, started, nOps, aCrashed>>

\* the default handler starts to run
InvokeZero(t) ==
    /\ zeroCalls' = Append(zeroCalls, Event(aop[t].no, "nil"))
    /\ apc' = [apc EXCEPT ![t] = "zero_handler"]
    /\ UNCHANGED <<transactions, closed, mux, zeroHandler, aop, aloc, aret,
                   calls, started, nOps, aCrashed>>

\* `a.zeroHandler.HandleEvent(e)`: the second unsynchronised read of the field.
\* Close may have set it to nil since the test: the call then uses the value
\* the test loaded, or calls a method of a nil interface and panics.
ProcessZero(t) ==
    /\ ~aCrashed
    /\ UNCHANGED <<sockVars, serveVars, restVars>>
    /\ apc[t] = "process_zero"
    /\ IF zeroHandler
         THEN InvokeZero(t)
         ELSE \/ InvokeZero(t)
              \/ /\ aCrashed' = TRUE
                 /\ apc' = [apc EXCEPT ![t] = "panic"]
                 /\ UNCHANGED <<transactions, closed, mux, zeroHandler, aop,
                                aloc, aret, calls, zeroCalls, started, nOps>>

\* a mutation of Before: a deadline equal to gcTime counts as expired
BeforeOrEqual(d, g) == d <= g

\* deadline.Before(gcTime)
Before(d, g) == d < g

\* Agent.Collect under the mutex: the transactions with deadline.Before(gcTime)
\* go to toRemove/toCall and are deleted
CollectBody(t) ==
    /\ ~aCrashed
    /\ UNCHANGED <<sockVars, serveVars, restVars>>
    /\ apc[t] = "collect_body"
    /\ IF closed
         THEN ReturnClosed(t)
         ELSE LET toRemove == {id \in TxIds : /\ transactions[id] # NoTx
                                              /\ Before(transactions[id].deadline, aop[t].gcTime)}
                  hs == {transactions[id].h : id \in toRemove}
              IN /\ aloc' = [aloc EXCEPT ![t] =
                               [exists |-> FALSE, toCall |-> hs, removed |-> hs]]
                 /\ transactions' = [id \in TxIds |->
                                       IF id \in toRemove THEN NoTx ELSE transactions[id]]
                 /\ mux' = "free"
                 /\ apc' = [apc EXCEPT ![t] = "collect_loop"]
                 /\ UNCHANGED <<closed, zeroHandler, aop, aret, calls, zeroCalls,
                                started, nOps, aCrashed>>

\* Agent.Collect after Unlock: `for _, handler := range toCall`
CollectLoop(t) ==
    /\ ~aCrashed
    /\ UNCHANGED <<sockVars, serveVars, restVars>>
    /\ apc[t] = "collect_loop"
    /\ IF aloc[t].toCall = {}
         THEN /\ Return(t, "nil")
              /\ UNCHANGED <<transactions, closed, mux, zeroHandler,
                             calls, zeroCalls, started, nOps, aCrashed>>
         ELSE /\ \E h \in aloc[t].toCall :
                    /\ Invoke(h, Event(0, "ErrTransactionTimeOut"))
                    /\ aloc' = [aloc EXCEPT ![t].toCall = @ \ {h}]
              /\ apc' = [apc EXCEPT ![t] = "collect_handler"]
              /\ UNCHANGED <<transactions, closed, mux, zeroHandler, aop, aret,
                             zeroCalls, started, nOps, aCrashed>>

\* Agent.Close after Lock: the closed test, then the range over the map begins
CloseBody(t) ==
    /\ ~aCrashed
    /\ UNCHANGED <<sockVars, serveVars, restVars>>
    /\ apc[t] = "close_body"
    /\ IF closed
         THEN ReturnClosed(t)
         ELSE /\ aloc' = [aloc EXCEPT ![t] =
                            [exists |-> FALSE, toCall |-> Registered,
                             removed |-> Registered]]
              /\ apc' = [apc EXCEPT ![t] = "close_loop"]
              /\ UNCHANGED <<transactions, closed, mux, zeroHandler, aop, aret,
                             calls, zeroCalls, started, nOps, aCrashed>>

\* Agent.Close: `for _, t := range a.transactions { t.h.HandleEvent(e) }` with
\* the mutex held, then transactions = nil, closed = true, zeroHandler = nil, Unlock
CloseLoop(t) ==
    /\ ~aCrashed
    /\ UNCHANGED <<sockVars, serveVars, restVars>>
    /\ apc[t] = "close_loop"
    /\ IF aloc[t].toCall # {}
         THEN /\ \E h \in aloc[t].toCall :
                    /\ Invoke(h, Event(0, "ErrAgentClosed"))
                    /\ aloc' = [aloc EXCEPT ![t].toCall = @ \ {h}]
              /\ apc' = [apc EXCEPT ![t] = "close_handler"]
              /\ UNCHANGED <<transactions, closed, mux, zeroHandler, aop, aret,
                             zeroCalls, started, nOps, aCrashed>>
         ELSE /\ transactions' = [id \in TxIds |-> NoTx]
              /\ closed' = TRUE
              /\ zeroHandler' = FALSE
              /\ mux' = "free"
              /\ Return(t, "nil")
              /\ UNCHANGED <<calls, zeroCalls, started, nOps, aCrashed>>

\* HandleEvent returns to the agent method that called it
HandlerReturn(t) ==
    /\ ~aCrashed
    /\ UNCHANGED <<sockVars, serveVars, restVars>>
    /\ InHandler(t)
    /\ IF apc[t] = "collect_handler"
         THEN /\ apc' = [apc EXCEPT ![t] = "collect_loop"]
              /\ UNCHANGED <<aop, aloc, aret>>
         ELSE IF apc[t] = "close_handler"
           THEN /\ apc' = [apc EXCEPT ![t] = "close_loop"]
                /\ UNCHANGED <<aop, aloc, aret>>
           ELSE Return(t, "nil")
    /\ UNCHANGED <<transactions, closed, mux, zeroHandler, calls,
                   zeroCalls, started, nOps, aCrashed>>

(***************************************************************************)
(* ice.stunServerSock and ice.turnServerSock: the synchronous send, the    *)
(* read task that delivers responses to waiters, the write task and Close. *)
(*                                                                         *)
(* A waiter channel is unbuffered: `ch <- r` in the read task completes    *)
(* together with the receive in the caller's select.  A caller that is     *)
(* parked in the select of wait() is woken by the first of: a value sent   *)
(* on its channel, close of its channel, its timer; the case that woke it  *)
(* is the case it returns with.                                            *)
(***************************************************************************)
Callers == {"c1", "c2"}
\* the apparent source addresses of inbound messages: the address the requests
\* are sent to, and another one
Froms == {"peer", "other"}
\* cap of stunServerSock.sendchan
SendChanCap == 10

\* a serverSockResponse: the message, stood for by its transaction id, and the
\* address it came from
NoResp == [tid |-> "none", from |-> "none"]
NoMsg == [tid |-> "none"]
NoCall == [tid |-> "none", from |-> "addr", ch |-> 0]
NoCur == [key |-> "none", ch |-> 0]
\* (res *stun.Message, err error) of sendStunMessageSync
Result(err, res) == [err |-> err, res |-> res]
NoResult == Result("none", NoMsg)

\* the entries of the waiter map
Entries == {<<k, waiters[k]>> : k \in {i \in TxIds : waiters[i] # 0}}

\* turnServerSock.wrapperStunMessage: a message from the bound address goes out
\* as it is; one from the relayed address goes to the TURN server inside a Send
\* indication that names the peer
WrapperStunMessage(from, tid) ==
    IF from = "addr"
      THEN [kind |-> "request", tid |-> tid, to |-> "peer", peer |-> "none"]
      ELSE [kind |-> "SendIndication", tid |-> tid, to |-> "turnserver",
            peer |-> "peer"]

SockInit ==
    /\ waiters = [k \in TxIds |-> 0]
    /\ chClosed = {}
    /\ stoped = FALSE
    /\ connClosed = FALSE
    /\ sendClosed = FALSE
    /\ sendchan = <<>>
    /\ sent = {}
    /\ cpc = [c \in Callers |-> "idle"]
    /\ cop = [c \in Callers |-> NoCall]
    /\ cret = [c \in Callers |-> NoResult]
    /\ rpc = "recv"
    /\ rmsg = NoResp
    /\ rch = 0
    /\ kpc = "idle"
    /\ kcur = NoCur
    /\ ksnap = {}
    /\ kvisited = {}
    /\ nCalls = 0
    /\ nRecv = 0
    /\ sCrashed = FALSE

\* an unrecovered panic ends the process
Panic ==
    /\ sCrashed' = TRUE
    /\ UNCHANGED <<waiters, chClosed, stoped, connClosed, sendClosed, sendchan,
                   sent, cpc, cop, cret, rpc, rmsg, rch, kpc, kcur, ksnap,
                   kvisited, nCalls, nRecv>>

\* sendStunMessageSync returns r to caller c
SyncReturn(c, r) ==
    /\ cpc' = [cpc EXCEPT ![c] = "idle"]
    /\ cop' = [cop EXCEPT ![c] = NoCall]
    /\ cret' = [cret EXCEPT ![c] = r]

\* a goroutine calls sendStunMessageSync: `wait := make(chan *serverSockResponse)`.
\* From the bound address the call is stunServerSock.sendStunMessageSync, or
\* turnServerSock.sendStunMessageSync, whose wrapperStunMessage then changes
\* nothing; from the relayed address it is turnServerSock.sendStunMessageSync.
\* The callers are interchangeable: c1 names the one that calls first.
SyncBegin(c) ==
    /\ ~sCrashed
    /\ UNCHANGED <<agentVars, serveVars, restVars>>
    /\ cpc[c] = "idle"
    /\ nCalls < MaxCalls
    /\ c = "c1" \/ nCalls > 0
    /\ \E tid \in TxIds, from \in {"addr", "relay"} :
          cop' = [cop EXCEPT ![c] = [tid |-> tid, from |-> from, ch |-> nCalls + 1]]
    /\ nCalls' = nCalls + 1
    /\ cpc' = [cpc EXCEPT ![c] = "addWaiter"]
    /\ cret' = [cret EXCEPT ![c] = NoResult]
    /\ UNCHANGED <<waiters, chClosed, stoped, connClosed, sendClosed, sendchan,
                   sent, rpc, rmsg, rch, kpc, kcur, ksnap, kvisited, nRecv,
                   sCrashed>>

\* stunServerSock.addWaiter, and `if err != nil { return }` of the caller
AddWaiter(c) ==
    /\ ~sCrashed
    /\ UNCHANGED <<agentVars, serveVars, restVars>>
    /\ cpc[c] = "addWaiter"
    /\ IF waiters[cop[c].tid] # 0
         THEN /\ SyncReturn(c, Result("errDuplicateWaiter", NoMsg))
              /\ UNCHANGED waiters
         ELSE /\ waiters' = [waiters EXCEPT ![cop[c].tid] = cop[c].ch]
              /\ cpc' = [cpc EXCEPT ![c] = "sendData"]
              /\ UNCHANGED <<cop, cret>>
    /\ UNCHANGED <<chClosed, stoped, connClosed, sendClosed, sendchan, sent,
                   rpc, rmsg, rch, kpc, kcur, ksnap, kvisited, nCalls, nRecv,
                   sCrashed>>

\* stunServerSock.sendData: `if s.stoped { return }`, a read without a lock
SendData(c) ==
    /\ ~sCrashed
    /\ UNCHANGED <<agentVars, serveVars, restVars>>
    /\ cpc[c] = "sendData"
    /\ cpc' = [cpc EXCEPT ![c] = IF stoped THEN "wait" ELSE "enqueue"]
    /\ UNCHANGED <<waiters, chClosed, stoped, connClosed, sendClosed, sendchan,
                   sent, cop, cret, rpc, rmsg, rch, kpc, kcur, ksnap, kvisited,
                   nCalls, nRecv, sCrashed>>

\* stunServerSock.sendData: `s.sendchan <- &sendreq{data, to}`; it blocks while
\* the queue is full and panics when the queue was closed
Enqueue(c) ==
    /\ ~sCrashed
    /\ UNCHANGED <<agentVars, serveVars, restVars>>
    /\ cpc[c] = "enqueue"
    /\ IF sendClosed
         THEN Panic
         ELSE /\ Len(sendchan) < SendChanCap
              /\ sendchan' = Append(sendchan, WrapperStunMessage(cop[c].from, cop[c].tid))
              /\ cpc' = [cpc EXCEPT ![c] = "wait"]
              /\ UNCHANGED <<waiters, chClosed, stoped, connClosed, sendClosed,
                             sent, cop, cret, rpc, rmsg, rch, kpc, kcur, ksnap,
                             kvisited, nCalls, nRecv, sCrashed>>

\* stunServerSock.wait: the select is entered.  A closed channel or a waiting
\* sender is taken at once; otherwise the caller parks.
WaitEnter(c) ==
    /\ ~sCrashed
    /\ UNCHANGED <<agentVars, serveVars, restVars>>
    /\ cpc[c] = "wait"
    /\ IF cop[c].ch \in chClosed
         THEN /\ SyncReturn(c, Result("errWaiterClosed", NoMsg))
              /\ UNCHANGED <<rpc, rmsg>>
         ELSE IF rpc = "deliver" /\ rch = cop[c].ch
           THEN /\ SyncReturn(c, Result("nil", [tid |-> rmsg.tid]))
                /\ rpc' = "closech"
                /\ rmsg' = NoResp
           ELSE /\ cpc' = [cpc EXCEPT ![c] = "parked"]
                /\ UNCHANGED <<cop, cret, rpc, rmsg>>
    /\ UNCHANGED <<waiters, chClosed, stoped, connClosed, sendClosed, sendchan,
                   sent, rch, kpc, kcur, ksnap, kvisited, nCalls, nRecv,
                   sCrashed>>

\* stunServerSock.wait: `case <-time.After(s.syncMessageTimeout): return nil,
\* errTimeout` wakes a parked caller
TimerFire(c) ==
    /\ ~sCrashed
    /\ UNCHANGED <<agentVars, serveVars, restVars>>
    /\ cpc[c] = "parked"
    /\ SyncReturn(c, Result("errTimeout", NoMsg))
    /\ UNCHANGED <<waiters, chClosed, stoped, connClosed, sendClosed, sendchan,
                   sent, rpc, rmsg, rch, kpc, kcur, ksnap, kvisited, nCalls,
                   nRecv, sCrashed>>

\* serveConn: c.ReadFrom returns a datagram that decodes as a STUN message
\* which is neither a Binding indication nor a Send indication
ReaderReceive ==
    /\ ~sCrashed
    /\ UNCHANGED <<agentVars, serveVars, restVars>>
    /\ rpc = "recv"
    /\ ~connClosed
    /\ nRecv < MaxRecv
    /\ nRecv' = nRecv + 1
    /\ \E tid \in TxIds, from \in Froms : rmsg' = [tid |-> tid, from |-> from]
    /\ rpc' = "received"
    /\ UNCHANGED <<waiters, chClosed, stoped, connClosed, sendClosed, sendchan,
                   sent, cpc, cop, cret, rch, kpc, kcur, ksnap, kvisited, nCalls,
                   sCrashed>>

\* a mutation of ReaderTakeWaiter: only a message from the address the request
\* went to is matched with the waiter
ReaderTakeWaiterFromPeer ==
    /\ ~sCrashed
    /\ UNCHANGED <<agentVars, serveVars, restVars>>
    /\ rpc = "received"
    /\ IF waiters[rmsg.tid] # 0 /\ rmsg.from = "peer"
         THEN /\ rch' = waiters[rmsg.tid]
              /\ waiters' = [waiters EXCEPT ![rmsg.tid] = 0]
              /\ rpc' = "deliver"
              /\ UNCHANGED rmsg
         ELSE /\ rpc' = "recv"
              /\ rmsg' = NoResp
              /\ UNCHANGED <<rch, waiters>>
    /\ UNCHANGED <<chClosed, stoped, connClosed, sendClosed, sendchan, sent,
                   cpc, cop, cret, kpc, kcur, ksnap, kvisited, nCalls, nRecv,
                   sCrashed>>

\* stunMessageReceived: `ch, ok := s.getAndRemoveWaiter(msg.TransactionID)`;
\* without a waiter the message goes on to the response cache and the callback
ReaderTakeWaiter ==
    /\ ~sCrashed
    /\ UNCHANGED <<agentVars, serveVars, restVars>>
    /\ rpc = "received"
    /\ IF waiters[rmsg.tid] # 0
         THEN /\ rch' = waiters[rmsg.tid]
              /\ waiters' = [waiters EXCEPT ![rmsg.tid] = 0]
              /\ rpc' = "deliver"
              /\ UNCHANGED rmsg
         ELSE /\ rpc' = "recv"
              /\ rmsg' = NoResp
              /\ UNCHANGED <<rch, waiters>>
    /\ UNCHANGED <<chClosed, stoped, connClosed, sendClosed, sendchan, sent,
                   cpc, cop, cret, kpc, kcur, ksnap, kvisited, nCalls, nRecv,
                   sCrashed>>

\* ReadFrom fails on the closed connection and Serve returns
ReaderExit ==
    /\ ~sCrashed
    /\ UNCHANGED <<agentVars, serveVars, restVars>>
    /\ rpc = "recv"
    /\ connClosed
    /\ rpc' = "exited"
    /\ UNCHANGED <<waiters, chClosed, stoped, connClosed, sendClosed, sendchan,
                   sent, cpc, cop, cret, rmsg, rch, kpc, kcur, ksnap, kvisited,
                   nCalls, nRecv, sCrashed>>

\* stunMessageReceived: `ch <- &serverSockResponse{msg, from}` hands the message
\* to the caller parked on ch; a send on a closed channel panics
ReaderDeliver ==
    /\ ~sCrashed
    /\ UNCHANGED <<agentVars, serveVars, restVars>>
    /\ rpc = "deliver"
    /\ IF rch \in chClosed
         THEN Panic
         ELSE /\ \E c \in Callers :
                    /\ cpc[c] = "parked"
                    /\ cop[c].ch = rch
                    /\ SyncReturn(c, Result("nil", [tid |-> rmsg.tid]))
              /\ rpc' = "closech"
              /\ rmsg' = NoResp
              /\ UNCHANGED <<waiters, chClosed, stoped, connClosed, sendClosed,
                             sendchan, sent, rch, kpc, kcur, ksnap, kvisited,
                             nCalls, nRecv, sCrashed>>

\* stunMessageReceived: `close(ch)`; closing a closed channel panics
ReaderCloseCh ==
    /\ ~sCrashed
    /\ UNCHANGED <<agentVars, serveVars, restVars>>
    /\ rpc = "closech"
    /\ IF rch \in chClosed
         THEN Panic
         ELSE /\ chClosed' = chClosed \cup {rch}
              /\ rpc' = "recv"
              /\ rch' = 0
              /\ UNCHANGED <<waiters, stoped, connClosed, sendClosed, sendchan,
                             sent, cpc, cop, cret, rmsg, kpc, kcur, ksnap,
                             kvisited, nCalls, nRecv, sCrashed>>

\* the write task of Serve: `r := <-s.sendchan; s.c.WriteTo(r.data, r.to)`;
\* WriteTo on the closed connection fails and is logged
WriterStep ==
    /\ ~sCrashed
    /\ UNCHANGED <<agentVars, serveVars, restVars>>
    /\ Len(sendchan) > 0
    /\ sendchan' = Tail(sendchan)
    /\ sent' = IF connClosed THEN sent ELSE sent \cup {Head(sendchan)}
    /\ UNCHANGED <<waiters, chClosed, stoped, connClosed, sendClosed, cpc, cop,
                   cret, rpc, rmsg, rch, kpc, kcur, ksnap, kvisited, nCalls,
                   nRecv, sCrashed>>

\* stunServerSock.Close: `s.stoped = true`
CloseStart ==
    /\ ~sCrashed
    /\ UNCHANGED <<agentVars, serveVars, restVars>>
    /\ kpc = "idle"
    /\ stoped' = TRUE
    /\ kpc' = "conn"
    /\ UNCHANGED <<waiters, chClosed, connClosed, sendClosed, sendchan, sent,
                   cpc, cop, cret, rpc, rmsg, rch, kcur, ksnap, kvisited,
                   nCalls, nRecv, sCrashed>>

\* stunServerSock.Close: `s.c.Close()`
CloseConn ==
    /\ ~sCrashed
    /\ UNCHANGED <<agentVars, serveVars, restVars>>
    /\ kpc = "conn"
    /\ connClosed' = TRUE
    /\ kpc' = "sendchan"
    /\ UNCHANGED <<waiters, chClosed, stoped, sendClosed, sendchan, sent, cpc,
                   cop, cret, rpc, rmsg, rch, kcur, ksnap, kvisited, nCalls,
                   nRecv, sCrashed>>

\* stunServerSock.Close: `close(s.sendchan)`, and `range s.waiters` begins
CloseSendchan ==
    /\ ~sCrashed
    /\ UNCHANGED <<agentVars, serveVars, restVars>>
    /\ kpc = "sendchan"
    /\ sendClosed' = TRUE
    /\ ksnap' = Entries
    /\ kvisited' = {}
    /\ kpc' = "range"
    /\ UNCHANGED <<waiters, chClosed, stoped, connClosed, sendchan, sent, cpc,
                   cop, cret, rpc, rmsg, rch, kcur, nCalls, nRecv, sCrashed>>

\* stunServerSock.Close: `for key, ch := range s.waiters`, read without the
\* lock.  The range produces every entry that was in the map when it began and
\* still is; an entry added since may be produced or skipped.  An iteration
\* step that overlaps a write to the map in another goroutine (the insert of
\* addWaiter, the delete of the read task's getAndRemoveWaiter) can end the
\* process ("concurrent map iteration and map write").
CloseRange ==
    /\ ~sCrashed
    /\ UNCHANGED <<agentVars, serveVars, restVars>>
    /\ kpc = "range"
    /\ \/ /\ \E e \in Entries \ kvisited :
                /\ kcur' = [key |-> e[1], ch |-> e[2]]
                /\ kvisited' = kvisited \cup {e}
                /\ kpc' = "remove"
          /\ UNCHANGED <<waiters, chClosed, stoped, connClosed, sendClosed,
                         sendchan, sent, cpc, cop, cret, rpc, rmsg, rch, ksnap,
                         nCalls, nRecv, sCrashed>>
       \/ /\ (ksnap \cap Entries) \subseteq kvisited
          /\ kpc' = "done"
          /\ kvisited' = {}
          /\ UNCHANGED <<waiters, chClosed, stoped, connClosed, sendClosed,
                         sendchan, sent, cpc, cop, cret, rpc, rmsg, rch, kcur,
                         ksnap, nCalls, nRecv, sCrashed>>
       \/ /\ ksnap # {}
          /\ \/ \E c \in Callers : cpc[c] = "addWaiter" /\ waiters[cop[c].tid] = 0
             \/ rpc = "received" /\ waiters[rmsg.tid] # 0
          /\ Panic

\* stunServerSock.Close: `s.getAndRemoveWaiter(key)`
CloseRemove ==
    /\ ~sCrashed
    /\ UNCHANGED <<agentVars, serveVars, restVars>>
    /\ kpc = "remove"
    /\ waiters' = [waiters EXCEPT ![kcur.key] = 0]
    /\ kpc' = "closech"
    /\ UNCHANGED <<chClosed, stoped, connClosed, sendClosed, sendchan, sent,
                   cpc, cop, cret, rpc, rmsg, rch, kcur, ksnap, kvisited,
                   nCalls, nRecv, sCrashed>>

\* close(ch) wakes the caller parked on ch, which returns errWaiterClosed
CloseAndWake(ch) ==
    /\ chClosed' = chClosed \cup {ch}
    /\ cpc' = [c \in Callers |->
                 IF cpc[c] = "parked" /\ cop[c].ch = ch THEN "idle" ELSE cpc[c]]
    /\ cop' = [c \in Callers |->
                 IF cpc[c] = "parked" /\ cop[c].ch = ch THEN NoCall ELSE cop[c]]
    /\ cret' = [c \in Callers |->
                  IF cpc[c] = "parked" /\ cop[c].ch = ch
                    THEN Result("errWaiterClosed", NoMsg) ELSE cret[c]]

\* stunServerSock.Close: `close(ch)`; closing a closed channel panics
CloseCh ==
    /\ ~sCrashed
    /\ UNCHANGED <<agentVars, serveVars, restVars>>
    /\ kpc = "closech"
    /\ IF kcur.ch \in chClosed
         THEN Panic
         ELSE /\ CloseAndWake(kcur.ch)
              /\ kpc' = "range"
              /\ kcur' = NoCur
              /\ UNCHANGED <<waiters, stoped, connClosed, sendClosed, sendchan,
                             sent, rpc, rmsg, rch, ksnap, kvisited, nCalls,
                             nRecv, sCrashed>>

(***************************************************************************)
(* The read task's dispatch: stunServerSock.serveConn, stunMessageReceived *)
(* and checkCachedResponse, with a turnServerSock as the socket's callback *)
(* (newTurnServerSockWrapper) and the layer above as the callback of the   *)
(* turnServerSock; and the operations of turnServerSock that the layer     *)
(* above calls.                                                            *)
(*                                                                         *)
(* A datagram is given by what decoding it yields: raw bytes that are no   *)
(* STUN message, or a STUN message with its type, its transaction id and   *)
(* the attributes the code reads.  The payload of a Data indication, a     *)
(* Send indication or a ChannelData frame is again raw bytes or a message. *)
(***************************************************************************)
\* stunServerSock.Addr, the address the socket is bound to
Addr == "bound"
\* turnServerSockConfig.relayAddress and .serverAddr
RelayAddress == "relay"
ServerAddr == "turnserver"
Peers == {"peerA", "peerB"}

\* turn.MinChannelNumber and turn.MaxChannelNumber, 0x4000 and 0x7FFF
MinChannelNumber == 16384
MaxChannelNumber == 32767
\* the channel numbers of the frames that come in
ChanNos == {MinChannelNumber, MinChannelNumber + 1}

\* stunResponseCacheDuration, in ticks of the model's clock
StunResponseCacheDuration == 1

Modes == {"stageNegotiation", "stunModeData", "turnModeData"}

\* a stun.Message: Type, TransactionID, and the attributes DATA (dkind: "none"
\* when absent, "empty", "raw" for bytes that are no STUN message, "stun" for
\* bytes that decode as the message imethod/iclass/itid), XOR-PEER-ADDRESS
\* (peer), CHANNEL-NUMBER (chan) and LIFETIME (life); for a ChannelData frame
\* chan and the d-fields are its channel number and payload
Msg(method, class, tid) ==
    [method |-> method, class |-> class, tid |-> tid,
     dkind |-> "none", dbytes |-> "none",
     imethod |-> "none", iclass |-> "none", itid |-> "none",
     peer |-> "none", chan |-> 0, life |-> 0]
NoM == Msg("none", "none", "none")

WithRaw(m, b) == [m EXCEPT !.dkind = "raw", !.dbytes = b]
WithEmpty(m) == [m EXCEPT !.dkind = "empty"]
WithInner(m, i) ==
    [m EXCEPT !.dkind = "stun", !.imethod = i.method, !.iclass = i.class,
              !.itid = i.tid]
WithPeer(m, p) == [m EXCEPT !.peer = p]
WithChan(m, n) == [m EXCEPT !.chan = n]

\* bytes: raw bytes b, or the encoding (msg.Raw) of the message m
RawBytes(b) == [stun |-> FALSE, bytes |-> b, m |-> NoM]
Raw(m) == [stun |-> TRUE, bytes |-> "none", m |-> m]
\* the bytes of the DATA attribute or of the ChannelData payload of m
DataOf(m) ==
    IF m.dkind = "stun" THEN Raw(Msg(m.imethod, m.iclass, m.itid))
    ELSE IF m.dkind = "raw" THEN RawBytes(m.dbytes)
    ELSE RawBytes("")

\* the messages that come in inside a Data indication or a ChannelData frame
InnerMsgs ==
    {Msg("Binding", c, "idA") : c \in {"request", "success", "error"}}
      \cup {Msg("ChannelData", "indication", "idB"),
            Msg("Data", "indication", "idB")}

\* Data indications: well-formed ones from the TURN server with every kind of
\* payload, and the malformed ones
DataIndications ==
    LET di == Msg("Data", "indication", "idB") IN
    {[from |-> ServerAddr, d |-> Raw(WithPeer(WithInner(di, i), "peerA"))] :
                                                          i \in InnerMsgs}
      \cup {[from |-> ServerAddr, d |-> Raw(WithPeer(WithRaw(di, "d1"), "peerA"))],
            [from |-> ServerAddr, d |-> Raw(WithPeer(WithEmpty(di), "peerA"))],
            [from |-> ServerAddr, d |-> Raw(WithPeer(di, "peerA"))],
            [from |-> ServerAddr, d |-> Raw(WithRaw(di, "d1"))],
            [from |-> "peerA", d |-> Raw(WithPeer(WithRaw(di, "d1"), "peerA"))]}

\* ChannelData frames from the TURN server
ChannelDatas ==
    LET cd == Msg("ChannelData", "indication", "idB") IN
    {[from |-> ServerAddr, d |-> Raw(WithChan(p, n))] :
        n \in ChanNos,
        p \in {WithRaw(cd, "d1"),
               WithInner(cd, Msg("Binding", "request", "idA")),
               cd}}

\* the datagrams c.ReadFrom returns, with the address they come from
Datagrams ==
    {[from |-> "peerA", d |-> RawBytes("d1")]}
      \cup {[from |-> "peerA", d |-> Raw(Msg("Binding", c, "idA"))] :
               c \in {"request", "success", "error", "indication"}}
      \cup {[from |-> "peerA", d |-> Raw(Msg("Send", "indication", "idB"))]}
      \cup DataIndications
      \cup ChannelDatas

\* an entry of s.cachedResponse; NoCached stands for an absent key
NoCached == [cacheTime |-> 0, m |-> NoM]
Cached(t, m) == [cacheTime |-> t, m |-> m]

\* what the callbacks of the layer above, the wire and a waiting channel get
UpStun(local, from, m) == [local |-> local, from |-> from, m |-> m]
UpData(local, from, d) == [local |-> local, from |-> from, d |-> d]
Packet(to, d) == [to |-> to, d |-> d]
Response(ch, from, m) == [ch |-> ch, from |-> from, m |-> m]

\* the state one call of the read task or of the layer above works on
Here ==
    [w |-> waiters, cache |-> cachedResponse, wire |-> wire,
     del |-> delivered, ups |-> cbStun, upd |-> cbData, parked |-> parked,
     panic |-> tPanic, blocked |-> tBlocked]
\* the call panicked, or blocks for ever: nothing after it runs
Halted(st) == st.panic \/ st.blocked
Panics(st) == [st EXCEPT !.panic = TRUE]

\* stunServerSock.sendData: hands the packet to the writer, unless stopped
SendDataTo(st, d, fromaddr, toaddr) ==
    IF Halted(st) THEN st
    ELSE IF Addr # fromaddr THEN Panics(st)
    ELSE IF stoped THEN st
    ELSE [st EXCEPT !.wire = Append(@, Packet(toaddr, d))]

\* stunServerSock.checkCachedResponse: the entries left after the expired
\* ones are deleted
Unexpired(cache, t) ==
    [id \in TxIds |->
        IF cache[id] # NoCached
           /\ cache[id].cacheTime + StunResponseCacheDuration < t
        THEN NoCached ELSE cache[id]]
CacheHits(cache, req) ==
    {id \in TxIds : /\ cache[id] # NoCached
                    /\ cache[id].m.method = req.method
                    /\ cache[id].m.tid = req.tid}
\* stunServerSock.checkCachedResponse: the state after it, and its result
CheckCachedResponseNoExpiry(st, req, from) ==
    IF \A id \in TxIds : st.cache[id] = NoCached THEN st
    ELSE LET left == st.cache
             hits == CacheHits(left, req)
         IN  IF hits = {} THEN [st EXCEPT !.cache = left]
             ELSE SendDataTo([st EXCEPT !.cache = left],
                             Raw(left[CHOOSE id \in hits : TRUE].m), Addr, from)
CheckCachedResponse(st, req, from) ==
    IF \A id \in TxIds : st.cache[id] = NoCached THEN st
    ELSE LET left == Unexpired(st.cache, now)
             hits == CacheHits(left, req)
         IN  IF hits = {} THEN [st EXCEPT !.cache = left]
             ELSE SendDataTo([st EXCEPT !.cache = left],
                             Raw(left[CHOOSE id \in hits : TRUE].m), Addr, from)
CachedResponseFound(st, req) ==
    /\ \E id \in TxIds : st.cache[id] # NoCached
    /\ CacheHits(Unexpired(st.cache, now), req) # {}

\* s.channelNumber2Address[n], "none" when the key is absent
ChannelPeer(n) ==
    IF n \in DOMAIN channelNumber2Address THEN channelNumber2Address[n]
    ELSE "none"

RECURSIVE StunMessageReceived(_, _, _, _)

\* turnServerSock.ReceiveData, the socket's data callback
TsReceiveData(st, localAddr, peerAddr, d) ==
    IF Halted(st) THEN st
    ELSE IF d.stun /\ d.m.method # "ChannelData"
    THEN StunMessageReceived(st, RelayAddress, peerAddr, d.m)
    ELSE [st EXCEPT !.upd = Append(@, UpData(localAddr, peerAddr, d))]

\* stunServerSock.dataReceived
DataReceived(st, peerAddr, d) == TsReceiveData(st, Addr, peerAddr, d)

\* a mutation of TsRecieveStunMessage: a Data indication must carry a Binding
\* response, anything else panics
TsRecieveStunMessageResponsesOnly(st, localAddr, remoteAddr, msg) ==
    IF Halted(st) THEN st
    ELSE IF msg.method = "Data" /\ msg.class = "indication"
    THEN IF remoteAddr # ServerAddr THEN Panics(st)
         ELSE IF msg.dkind = "none" THEN Panics(st)
         ELSE IF msg.dkind = "empty" THEN Panics(st)
         ELSE IF msg.peer = "none" THEN Panics(st)
         ELSE IF msg.dkind # "stun" \/ msg.imethod = "ChannelData"
         THEN [st EXCEPT !.upd = Append(@, UpData(localAddr, msg.peer, DataOf(msg)))]
         ELSE IF msg.imethod = "Binding" /\ msg.iclass \in {"success", "error"}
         THEN StunMessageReceived(st, RelayAddress, msg.peer, DataOf(msg).m)
         ELSE Panics(st)
    ELSE [st EXCEPT !.ups = Append(@, UpStun(localAddr, remoteAddr, msg))]
\* turnServerSock.RecieveStunMessage, the socket's message callback.  The test
\* of line 87, Type = BindingSuccess or Type # BindingError or Type #
\* BindingRequest, holds for every type.
TsRecieveStunMessage(st, localAddr, remoteAddr, msg) ==
    IF Halted(st) THEN st
    ELSE IF msg.method = "Data" /\ msg.class = "indication"
    THEN IF remoteAddr # ServerAddr THEN Panics(st)
         ELSE IF msg.dkind = "none" THEN Panics(st)
         ELSE IF msg.dkind = "empty" THEN Panics(st)
         ELSE IF msg.peer = "none" THEN Panics(st)
         ELSE IF msg.dkind # "stun" \/ msg.imethod = "ChannelData"
         THEN [st EXCEPT !.upd = Append(@, UpData(localAddr, msg.peer, DataOf(msg)))]
         ELSE IF \/ (msg.imethod = "Binding" /\ msg.iclass = "success")
                 \/ ~(msg.imethod = "Binding" /\ msg.iclass = "error")
                 \/ ~(msg.imethod = "Binding" /\ msg.iclass = "request")
         THEN StunMessageReceived(st, RelayAddress, msg.peer, DataOf(msg).m)
         ELSE Panics(st)
    ELSE [st EXCEPT !.ups = Append(@, UpStun(localAddr, remoteAddr, msg))]

\* a mutation of AfterChannelData: a message answered from the cache goes to
\* the callback as well
AfterChannelDataBoth(st, localaddr, from, msg) ==
    IF Halted(st) THEN st
    ELSE IF st.w[msg.tid] # 0
    THEN IF st.w[msg.tid] \in st.parked
         THEN [st EXCEPT !.w[msg.tid] = 0,
                         !.parked = @ \ {st.w[msg.tid]},
                         !.del = Append(@, Response(st.w[msg.tid], from, msg))]
         ELSE [st EXCEPT !.w[msg.tid] = 0, !.blocked = TRUE]
    ELSE TsRecieveStunMessage(CheckCachedResponse(st, msg, from),
                              localaddr, from, msg)

\* stunServerSock.stunMessageReceived from the waiter lookup on
AfterChannelData(st, localaddr, from, msg) ==
    IF Halted(st) THEN st
    ELSE IF st.w[msg.tid] # 0
    THEN IF st.w[msg.tid] \in st.parked
         THEN [st EXCEPT !.w[msg.tid] = 0,
                         !.parked = @ \ {st.w[msg.tid]},
                         !.del = Append(@, Response(st.w[msg.tid], from, msg))]
         ELSE [st EXCEPT !.w[msg.tid] = 0, !.blocked = TRUE]
    ELSE IF CachedResponseFound(st, msg)
    THEN CheckCachedResponse(st, msg, from)
    ELSE TsRecieveStunMessage(CheckCachedResponse(st, msg, from),
                              localaddr, from, msg)

\* stunServerSock.stunMessageReceived
StunMessageReceived(st, localaddr, from, msg) ==
    IF Halted(st) THEN st
    ELSE IF msg.method = "ChannelData"
    THEN IF mode = "stageNegotiation" THEN st
         ELSE IF mode = "stunModeData" THEN DataReceived(st, from, Raw(msg))
         ELSE IF msg.dkind = "none" THEN st
         ELSE IF ChannelPeer(msg.chan) = "none" THEN st
         ELSE AfterChannelData(
                  DataReceived(st, ChannelPeer(msg.chan), DataOf(msg)),
                  localaddr, from, msg)
    ELSE AfterChannelData(st, localaddr, from, msg)

\* a mutation of ServeConn: only Binding indications are ignored
ServeConnSendIndication(st, g) ==
    IF ~g.d.stun THEN DataReceived(st, g.from, g.d)
    ELSE IF g.d.m.class = "indication" /\ g.d.m.method = "Binding"
    THEN st
    ELSE StunMessageReceived(st, Addr, g.from, g.d.m)
\* stunServerSock.serveConn, after c.ReadFrom returned the datagram g
ServeConn(st, g) ==
    IF ~g.d.stun THEN DataReceived(st, g.from, g.d)
    ELSE IF g.d.m.class = "indication" /\ g.d.m.method \in {"Binding", "Send"}
    THEN st
    ELSE StunMessageReceived(st, Addr, g.from, g.d.m)

\* the transaction id stun.TransactionIDSetter draws for a message built here
NewTransactionID == "idN"

\* newStunServerSock and newTurnServerSockWrapper
ServeInit ==
    /\ mode = "stageNegotiation"
    /\ channelNumber2Address = [n \in ChanNos |-> "none"]
    /\ address2ChannelNumber = [a \in Peers |-> 0]
    /\ cachedResponse = [id \in TxIds |-> NoCached]
    /\ now = 0
    /\ parked = {}
    /\ wire = <<>>
    /\ delivered = <<>>
    /\ cbStun = <<>>
    /\ cbData = <<>>
    /\ appRet = "none"
    /\ tPanic = FALSE
    /\ tBlocked = FALSE
    /\ nIn = 0
    /\ nApp = 0

\* the call leaves the state st behind
Commit(st) ==
    /\ waiters' = st.w
    /\ cachedResponse' = st.cache
    /\ wire' = st.wire
    /\ delivered' = st.del
    /\ cbStun' = st.ups
    /\ cbData' = st.upd
    /\ parked' = st.parked
    /\ tPanic' = st.panic
    /\ tBlocked' = st.blocked

\* a call of the layer above runs on a goroutine of its own: it does not wait
\* for the read task
AppHere == [Here EXCEPT !.blocked = FALSE]
AppCommit(st) == Commit([st EXCEPT !.blocked = tBlocked])

\* the read task: one turn of the loop around serveConn, in which c.ReadFrom
\* returns the datagram g
ServeConnOn(g) ==
    /\ ~tPanic
    /\ UNCHANGED <<agentVars, sockRest, restVars>>
    /\ ~tBlocked
    /\ ~stoped
    /\ nIn < MaxIn
    /\ nIn' = nIn + 1
    /\ Commit(ServeConn(Here, g))
    /\ UNCHANGED <<mode, channelNumber2Address, address2ChannelNumber, now,
                   appRet, nApp>>

ServeConnStep == \E g \in Datagrams : ServeConnOn(g)

\* wait: the timer fires; the caller leaves with errTimeout and its waiter
\* stays in the map
SyncTimesOut ==
    /\ ~tPanic
    /\ UNCHANGED <<agentVars, sockRest, restVars>>
    /\ \E ch \in parked : parked' = parked \ {ch}
    /\ appRet' = "errTimeout"
    /\ UNCHANGED <<waiters, mode, channelNumber2Address, address2ChannelNumber,
                   cachedResponse, now, wire, delivered, cbStun, cbData,
                   tPanic, tBlocked, nIn, nApp>>

\* time.Now() moves on
Tick ==
    /\ ~tPanic
    /\ UNCHANGED <<agentVars, sockRest, restVars>>
    /\ now < MaxClock
    /\ now' = now + 1
    /\ UNCHANGED <<waiters, mode, channelNumber2Address, address2ChannelNumber,
                   cachedResponse, parked, wire, delivered, cbStun, cbData,
                   appRet, tPanic, tBlocked, nIn, nApp>>

\* stunServerSock.sendStunMessageAsync
SendStunMessageAsync(st, msg, fromaddr, toaddr) ==
    SendDataTo(IF msg.class \in {"success", "error"}
               THEN [st EXCEPT !.cache[msg.tid] = Cached(now, msg)]
               ELSE st,
               Raw(msg), fromaddr, toaddr)

\* a mutation of WrappedStunMessage: nothing is wrapped
WrappedStunMessageDirect(fromaddr, toaddr, msg) ==
    [msg |-> msg, from |-> Addr, to |-> toaddr]
\* turnServerSock.wrapperStunMessage: the message, from and to it returns
WrappedStunMessage(fromaddr, toaddr, msg) ==
    IF fromaddr = Addr
    THEN [msg |-> msg, from |-> fromaddr, to |-> toaddr]
    ELSE [msg |-> WithPeer(WithInner(Msg("Send", "indication", NewTransactionID),
                                     msg), toaddr),
          from |-> Addr, to |-> ServerAddr]

\* turnServerSock.sendStunMessageAsync
TsSendStunMessageAsync(st, msg, fromaddr, toaddr) ==
    IF fromaddr # Addr /\ fromaddr # RelayAddress THEN Panics(st)
    ELSE LET w == WrappedStunMessage(fromaddr, toaddr, msg)
         IN  SendStunMessageAsync(st, w.msg, w.from, w.to)

\* turnServerSock.sendStunMessageSync(Binding request tid, fromaddr, peerA) up
\* to the select of wait: the waiter is registered under the request's id, the
\* request, wrapped if need be, is handed to the writer and the caller parks on
\* channel nApp+1
SyncParksOn(tid, fromaddr) ==
    /\ ~tPanic
    /\ UNCHANGED <<agentVars, sockRest, restVars>>
    /\ nApp < MaxApp
    /\ nApp' = nApp + 1
    /\ waiters[tid] = 0
    /\ waiters' = [waiters EXCEPT ![tid] = nApp + 1]
    /\ LET w == WrappedStunMessage(fromaddr, "peerA",
                                   Msg("Binding", "request", tid))
       IN  wire' = SendStunMessageAsync(AppHere, w.msg, w.from, w.to).wire
    /\ parked' = parked \cup {nApp + 1}
    /\ UNCHANGED <<mode, channelNumber2Address, address2ChannelNumber,
                   cachedResponse, now, delivered, cbStun, cbData, appRet,
                   tPanic, tBlocked, nIn>>

SyncParks ==
    \E tid \in TxIds, fromaddr \in {Addr, RelayAddress} :
        SyncParksOn(tid, fromaddr)

\* the messages the layer above sends: the responses to the requests it is
\* handed, and requests of its own
OutMsgs ==
    {Msg("Binding", c, "idA") : c \in {"request", "success", "error"}}

\* the layer above calls turnServerSock.sendStunMessageAsync
AsyncSend ==
    /\ ~tPanic
    /\ UNCHANGED <<agentVars, sockRest, restVars>>
    /\ nApp < MaxApp
    /\ nApp' = nApp + 1
    /\ \E msg \in OutMsgs, fromaddr \in {Addr, RelayAddress, "other"} :
          AppCommit(TsSendStunMessageAsync(AppHere, msg, fromaddr, "peerA"))
    /\ appRet' = "nil"
    /\ UNCHANGED <<mode, channelNumber2Address, address2ChannelNumber, now,
                   nIn>>

\* the ChannelData frame and the Send indication turnServerSock.sendData builds
ChannelDataFrame(number, d) ==
    [WithChan(Msg("ChannelData", "request", "none"), number)
        EXCEPT !.dkind = "raw", !.dbytes = d.bytes]
SendIndicationOf(d, toaddr) ==
    WithPeer(WithRaw(Msg("Send", "indication", NewTransactionID), d.bytes),
             toaddr)

\* a mutation of TsSendData: data from the relayed address always goes out in
\* a Send indication
TsSendDataNoChannel(st, d, fromaddr, toaddr) ==
    IF fromaddr = RelayAddress
    THEN SendStunMessageAsync(st, SendIndicationOf(d, toaddr), Addr, ServerAddr)
    ELSE SendDataTo(st, d, fromaddr, toaddr)
\* turnServerSock.sendData
TsSendData(st, d, fromaddr, toaddr) ==
    IF fromaddr = RelayAddress
    THEN LET number == address2ChannelNumber[toaddr] IN
         IF number >= MinChannelNumber /\ number <= MaxChannelNumber
         THEN SendDataTo(st, Raw(ChannelDataFrame(number, d)), Addr, ServerAddr)
         ELSE SendStunMessageAsync(st, SendIndicationOf(d, toaddr),
                                   Addr, ServerAddr)
    ELSE SendDataTo(st, d, fromaddr, toaddr)

\* the layer above calls turnServerSock.sendData(d1, fromaddr, toaddr)
DataSendOn(fromaddr, toaddr) ==
    /\ ~tPanic
    /\ UNCHANGED <<agentVars, sockRest, restVars>>
    /\ nApp < MaxApp
    /\ nApp' = nApp + 1
    /\ AppCommit(TsSendData(AppHere, RawBytes("d1"), fromaddr, toaddr))
    /\ appRet' = "nil"
    /\ UNCHANGED <<mode, channelNumber2Address, address2ChannelNumber, now,
                   nIn>>

DataSend ==
    \E fromaddr \in {Addr, RelayAddress, "other"}, toaddr \in Peers :
        DataSendOn(fromaddr, toaddr)

\* stunServerSock.SetChannelNumber
SetChannelNumber(channelNumber, addr) ==
    /\ channelNumber2Address' =
           [channelNumber2Address EXCEPT ![channelNumber] = addr]
    /\ address2ChannelNumber' =
           [address2ChannelNumber EXCEPT ![addr] = channelNumber]

\* what sendStunMessageSync hands back to channelBind: an error, or the type
\* of the response
BindResults ==
    {[err |-> "errTimeout", method |-> "none", class |-> "none"]}
      \cup {[err |-> "nil", method |-> m, class |-> c] :
               m \in {"ChannelBind", "Binding"}, c \in {"success", "error"}}

\* the channel number channelBind asks for
BindChannelNumber(addr) == MinChannelNumber

\* turnServerSock.channelBind(addr), where sendStunMessageSync hands back res
ChannelBindOn(addr, res) ==
    /\ ~tPanic
    /\ UNCHANGED <<agentVars, sockRest, restVars>>
    /\ nApp < MaxApp
    /\ nApp' = nApp + 1
    /\ wire' = Append(wire, Packet(ServerAddr,
                  Raw(WithPeer(WithChan(Msg("ChannelBind", "request",
                                            NewTransactionID),
                                        BindChannelNumber(addr)), addr))))
    /\ IF res.err # "nil"
         THEN /\ appRet' = res.err
              /\ UNCHANGED <<channelNumber2Address, address2ChannelNumber>>
         ELSE IF res.method # "ChannelBind" /\ res.class # "success"
           THEN /\ appRet' = "channel bind error"
                /\ UNCHANGED <<channelNumber2Address, address2ChannelNumber>>
           ELSE /\ appRet' = "nil"
                /\ SetChannelNumber(MinChannelNumber, addr)
    /\ UNCHANGED <<waiters, mode, cachedResponse, now, parked, delivered,
                   cbStun, cbData, tPanic, tBlocked, nIn>>

ChannelBind ==
    \E addr \in Peers, res \in BindResults : ChannelBindOn(addr, res)

\* stunServerSock.FinishNegotiation
FinishNegotiation ==
    /\ ~tPanic
    /\ UNCHANGED <<agentVars, sockRest, restVars>>
    /\ nApp < MaxApp
    /\ nApp' = nApp + 1
    /\ \E md \in Modes \ {"stageNegotiation"} : mode' = md
    /\ UNCHANGED <<waiters, channelNumber2Address, address2ChannelNumber,
                   cachedResponse, now, parked, wire, delivered, cbStun,
                   cbData, appRet, tPanic, tBlocked, nIn>>


(***************************************************************************)
(* turnServerSock: FinishNegotiation, the keepalive and refresh goroutines *)
(* of StartRefresh, and Close (src/ice/turnserversock.go).  The session    *)
(* calls FinishNegotiation once per socket.  sendStunMessageSync is taken  *)
(* by its result here: rfPc = "wait" stands for the waiter registered      *)
(* under the request's new transaction id.                                 *)
(***************************************************************************)
\* the lifetimes the server grants to a request that asks for more than 0
Lifetimes == {2, 4}
Nonces == {"n1", "n2"}

WithLife(msg, l) == [msg EXCEPT !.life = l]

\* (res, err) of sendStunMessageSync in refreshRequest: err # nil, a
\* RefreshResponse with or without LIFETIME, or an error response with its
\* ERROR-CODE and NONCE
RefreshResult(kind, life, code, n) ==
    [kind |-> kind, life |-> life, code |-> code, nonce |-> n]
NoRefreshResult == RefreshResult("none", 0, 0, "none")
RefreshFailed == RefreshResult("err", 0, 0, "none")
StaleNonceResults == {RefreshResult("error", 0, 438, n) : n \in Nonces}
\* what the server can answer to a request for the lifetime asked
RefreshAnswers(asked) ==
    {RefreshResult("success", l, 0, "none") :
        l \in IF asked = 0 THEN {0} ELSE Lifetimes}
    \cup {RefreshResult("successNoLifetime", 0, 0, "none"),
          RefreshResult("error", 0, 437, "none")}
    \cup StaleNonceResults

\* a request built by refreshRequest: its LIFETIME and NONCE, and whether
\* sendData put it on sendchan
RefreshRequest(life, n, onwire) == [life |-> life, nonce |-> n, sent |-> onwire]

\* the variables of the other layers that the goroutines and Close leave alone
turnSockFrame == <<sendchan, sent, cpc, cop, cret, rpc, rmsg, rch, kpc, kcur,
                   ksnap, kvisited, nCalls, nRecv, sCrashed>>
turnServeFrame == <<channelNumber2Address, address2ChannelNumber,
                    cachedResponse, now, parked, delivered, cbStun, cbData,
                    appRet, tBlocked, nIn, nApp>>
closeVars == <<waiters, chClosed, stoped, connClosed, sendClosed>>

\* newTurnServerSockWrapper: the lifetime and the nonce are those of the
\* allocation
TurnInit ==
    /\ stopchan = "open"
    /\ lifetime = 4
    /\ nonce = "n1"
    /\ finished = FALSE
    /\ kaPc = "none"
    /\ nKeep = 0
    /\ rfPc = "none"
    /\ rfLoop = FALSE
    /\ rfEvery = 0
    /\ rfRes = NoRefreshResult
    /\ rlog = <<>>

\* sendStunMessageAsync of a goroutine to the TURN server.  sendData reads
\* stoped without a lock: once Close has run, the send was either dropped
\* because it saw stoped set, or it had passed that test before and panics
\* on the closed sendchan.
SendsOrPanics(msg) ==
    \/ /\ wire' = SendStunMessageAsync(AppHere, msg, Addr, ServerAddr).wire
       /\ UNCHANGED tPanic
    \/ /\ sendClosed
       /\ tPanic' = TRUE
       /\ UNCHANGED wire

\* turnServerSock.FinishNegotiation: sets the mode and starts the goroutines
\* of StartRefresh
TsFinishNegotiation ==
    /\ ~tPanic
    /\ ~finished
    /\ finished' = TRUE
    /\ \E md \in Modes \ {"stageNegotiation"} :
          /\ mode' = md
          /\ rfLoop' = (md = "turnModeData")
    /\ kaPc' = "send"
    /\ rfPc' = "send"
    /\ UNCHANGED <<stopchan, lifetime, nonce, nKeep, rfEvery, rfRes, rlog>>
    /\ UNCHANGED <<agentVars, codecVars, closeVars, turnSockFrame, turnServeFrame, wire,
                   tPanic>>

\* the keepalive goroutine: keepAlive sends a Binding indication to the TURN
\* server
KeepAliveSend ==
    /\ ~tPanic
    /\ kaPc = "send"
    /\ kaPc' = "select"
    /\ nKeep' = nKeep + 1
    /\ SendsOrPanics(Msg("Binding", "indication", NewTransactionID))
    /\ UNCHANGED <<stopchan, lifetime, nonce, finished, rfPc, rfLoop, rfEvery,
                   rfRes, rlog>>
    /\ UNCHANGED <<agentVars, codecVars, closeVars, turnSockFrame, turnServeFrame, mode>>

\* the keepalive goroutine's select: time.After(turnKeepAliveSecond) fires
KeepAliveTimer ==
    /\ ~tPanic
    /\ kaPc = "select"
    /\ stopchan = "open"
    /\ nKeep < MaxKeep
    /\ kaPc' = "send"
    /\ UNCHANGED <<stopchan, lifetime, nonce, finished, nKeep, rfPc, rfLoop,
                   rfEvery, rfRes, rlog>>
    /\ UNCHANGED <<agentVars, codecVars, closeVars, turnSockFrame, turnServeFrame, mode,
                   wire, tPanic>>

\* the keepalive goroutine's select: stopchan is closed
KeepAliveStop ==
    /\ ~tPanic
    /\ kaPc = "select"
    /\ stopchan = "closed"
    /\ kaPc' = "done"
    /\ UNCHANGED <<stopchan, lifetime, nonce, finished, nKeep, rfPc, rfLoop,
                   rfEvery, rfRes, rlog>>
    /\ UNCHANGED <<agentVars, codecVars, closeVars, turnSockFrame, turnServeFrame, mode,
                   wire, tPanic>>

\* the lifetime the refresh goroutine passes to refreshRequest
RefreshArgument == IF rfLoop THEN lifetime ELSE 0

\* refreshRequest up to the call of sendStunMessageSync: the request is built
\* with the stored nonce and handed to sendData
RefreshSend ==
    /\ ~tPanic
    /\ rfPc = "send"
    /\ rfPc' = "wait"
    /\ rlog' = Append(rlog, RefreshRequest(RefreshArgument, nonce, ~stoped))
    /\ SendsOrPanics(WithLife(Msg("Refresh", "request", NewTransactionID),
                              RefreshArgument))
    /\ UNCHANGED <<stopchan, lifetime, nonce, finished, kaPc, nKeep, rfLoop,
                   rfEvery, rfRes>>
    /\ UNCHANGED <<agentVars, codecVars, closeVars, turnSockFrame, turnServeFrame, mode>>

\* a mutation of StoredLifetime: an error response stores its zero lifetime
StoredLifetimeAny(res) == IF res.kind = "err" THEN lifetime ELSE res.life

\* ts.cfg.lifetime after refreshRequest has seen res
StoredLifetime(res) == IF res.kind = "success" THEN res.life ELSE lifetime

\* refreshRequest from the return of sendStunMessageSync on, and the entry of
\* the select that follows in the periodic goroutine.  A response comes in
\* only for a request that went out, and only while the socket is open.
RefreshAnsweredOn(res) ==
    /\ ~tPanic
    /\ rfPc = "wait"
    /\ (res.kind # "err") => (rlog[Len(rlog)].sent /\ ~stoped)
    /\ rfRes' = res
    /\ lifetime' = StoredLifetime(res)
    /\ rfPc' = IF rfLoop THEN "select" ELSE "done"
    /\ rfEvery' = IF rfLoop THEN lifetime' \div 2 ELSE rfEvery
    /\ UNCHANGED <<stopchan, nonce, finished, kaPc, nKeep, rfLoop, rlog>>
    /\ UNCHANGED <<agentVars, codecVars, closeVars, turnSockFrame, turnServeFrame, mode,
                   wire, tPanic>>

RefreshAnswered ==
    /\ rfPc = "wait"
    /\ \E res \in {RefreshFailed} \cup RefreshAnswers(rlog[Len(rlog)].life) :
          RefreshAnsweredOn(res)

\* the refresh goroutine's select: time.After(lifetime / 2) fires
RefreshTimer ==
    /\ ~tPanic
    /\ rfPc = "select"
    /\ stopchan = "open"
    /\ Len(rlog) < MaxRefresh
    /\ rfPc' = "send"
    /\ UNCHANGED <<stopchan, lifetime, nonce, finished, kaPc, nKeep, rfLoop,
                   rfEvery, rfRes, rlog>>
    /\ UNCHANGED <<agentVars, codecVars, closeVars, turnSockFrame, turnServeFrame, mode,
                   wire, tPanic>>

\* the refresh goroutine's select: stopchan is closed
RefreshStop ==
    /\ ~tPanic
    /\ rfPc = "select"
    /\ stopchan = "closed"
    /\ rfPc' = "done"
    /\ UNCHANGED <<stopchan, lifetime, nonce, finished, kaPc, nKeep, rfLoop,
                   rfEvery, rfRes, rlog>>
    /\ UNCHANGED <<agentVars, codecVars, closeVars, turnSockFrame, turnServeFrame, mode,
                   wire, tPanic>>

\* turnServerSock.Close: close(ts.stopchan), then stunServerSock.Close; the
\* close of a closed channel panics
TsClose ==
    /\ ~tPanic
    /\ IF stopchan = "closed"
       THEN /\ tPanic' = TRUE
            /\ UNCHANGED <<stopchan, closeVars>>
       ELSE /\ stopchan' = "closed"
            /\ stoped' = TRUE
            /\ connClosed' = TRUE
            /\ sendClosed' = TRUE
            /\ chClosed' = chClosed \cup ({waiters[k] : k \in TxIds} \ {0})
            /\ waiters' = [k \in TxIds |-> 0]
            /\ UNCHANGED tPanic
    /\ UNCHANGED <<lifetime, nonce, finished, kaPc, nKeep, rfPc, rfLoop,
                   rfEvery, rfRes, rlog>>
    /\ UNCHANGED <<agentVars, codecVars, turnSockFrame, turnServeFrame, mode, wire>>

(***************************************************************************)
(* The attribute codecs ERROR-CODE (src/stun/errorcode.go) and             *)
(* RESERVATION-TOKEN (src/turn/rsrvtoken.go).  A byte is a number in       *)
(* 0..255, a []byte a sequence of bytes.  stun.Message is taken by its     *)
(* list of attributes; Add, Get and the wire format follow the codec's     *)
(* description: a TLV with 16-bit type and length, the value padded with   *)
(* zeros to a multiple of 4, attributes in insertion order.                *)
(***************************************************************************)
\* constants for ERROR-CODE encoding
errorCodeReasonStart == 4
errorCodeClassByte == 2
errorCodeNumberByte == 3
errorCodeReasonMaxB == 763
errorCodeModulo == 100
reservationTokenSize == 8

\* the named error codes
CodeTryAlternate == 300
CodeBadRequest == 400
CodeUnauthorised == 401
CodeUnknownAttribute == 420
CodeStaleNonce == 428
CodeRoleConflict == 478
CodeServerError == 500
CodeForbidden == 403
CodeAllocMismatch == 437
CodeWrongCredentials == 441
CodeUnsupportedTransProto == 442
CodeAllocQuotaReached == 486
CodeInsufficientCapacity == 508

NamedCodes ==
    {CodeTryAlternate, CodeBadRequest, CodeUnauthorised,
     CodeUnknownAttribute, CodeStaleNonce, CodeRoleConflict,
     CodeServerError, CodeForbidden, CodeAllocMismatch,
     CodeWrongCredentials, CodeUnsupportedTransProto, CodeAllocQuotaReached,
     CodeInsufficientCapacity}

\* the type numbers of the two attributes
AttrErrorCode == 9
AttrReservationToken == 34

\* errorReasons: the default reason of a code, the empty sequence (nil) for a
\* code that has none
errorReasons(c) ==
    IF c = CodeTryAlternate  \* "Try Alternate"
    THEN <<84, 114, 121, 32, 65, 108, 116, 101, 114, 110, 97, 116,
         101>>
    ELSE IF c = CodeBadRequest  \* "Bad Request"
    THEN <<66, 97, 100, 32, 82, 101, 113, 117, 101, 115, 116>>
    ELSE IF c = CodeUnauthorised  \* "Unauthorised"
    THEN <<85, 110, 97, 117, 116, 104, 111, 114, 105, 115, 101, 100>>
    ELSE IF c = CodeUnknownAttribute  \* "Unknown Attribute"
    THEN <<85, 110, 107, 110, 111, 119, 110, 32, 65, 116, 116, 114,
         105, 98, 117, 116, 101>>
    ELSE IF c = CodeStaleNonce  \* "Stale nonce"
    THEN <<83, 116, 97, 108, 101, 32, 110, 111, 110, 99, 101>>
    ELSE IF c = CodeServerError  \* "Server Error"
    THEN <<83, 101, 114, 118, 101, 114, 32, 69, 114, 114, 111, 114>>
    ELSE IF c = CodeRoleConflict  \* "Role Conflict"
    THEN <<82, 111, 108, 101, 32, 67, 111, 110, 102, 108, 105, 99,
         116>>
    ELSE IF c = CodeForbidden  \* "Forbidden"
    THEN <<70, 111, 114, 98, 105, 100, 100, 101, 110>>
    ELSE IF c = CodeAllocMismatch  \* "Allocation Mismatch"
    THEN <<65, 108, 108, 111, 99, 97, 116, 105, 111, 110, 32, 77,
         105, 115, 109, 97, 116, 99, 104>>
    ELSE IF c = CodeWrongCredentials  \* "Wrong Credentials"
    THEN <<87, 114, 111, 110, 103, 32, 67, 114, 101, 100, 101, 110,
         116, 105, 97, 108, 115>>
    ELSE IF c = CodeUnsupportedTransProto  \* "Unsupported Transport Protocol"
    THEN <<85, 110, 115, 117, 112, 112, 111, 114, 116, 101, 100, 32,
         84, 114, 97, 110, 115, 112, 111, 114, 116, 32, 80, 114, 111,
         116, 111, 99, 111, 108>>
    ELSE IF c = CodeAllocQuotaReached  \* "Allocation Quota Reached"
    THEN <<65, 108, 108, 111, 99, 97, 116, 105, 111, 110, 32, 81,
         117, 111, 116, 97, 32, 82, 101, 97, 99, 104, 101, 100>>
    ELSE IF c = CodeInsufficientCapacity  \* "Insufficient Capacity"
    THEN <<73, 110, 115, 117, 102, 102, 105, 99, 105, 101, 110, 116,
         32, 67, 97, 112, 97, 99, 105, 116, 121>>
    ELSE <<>>

\* an error value: nil, ErrAttributeNotFound, io.ErrUnexpectedEOF,
\* ErrNoDefaultReason, BadAttrLength{Expected: a, Got: b} or
\* AttrOverflowErr{Max: a, Got: b}
CodecErr(kind, a, b) == [kind |-> kind, a |-> a, b |-> b]
CodecNil == CodecErr("nil", 0, 0)

\* ---- stun.Message ----
Attribute(t, v) == [t |-> t, v |-> v]
\* Message.Add: the attribute goes to the end of the list
MessageAdd(msg, t, v) == Append(msg, Attribute(t, v))
\* Message.Get: the value of the first attribute of type t
MessageHas(msg, t) == \E i \in 1..Len(msg) : msg[i].t = t
MessageGet(msg, t) ==
    LET i == CHOOSE k \in 1..Len(msg) :
                 /\ msg[k].t = t
                 /\ \A j \in 1..(k - 1) : msg[j].t # t
    IN msg[i].v
\* the zero bytes after a value of n bytes
Padding(n) == [i \in 1..((4 - (n % 4)) % 4) |-> 0]
Uint16(n) == <<(n \div 256) % 256, n % 256>>
EncodeAttribute(a) == Uint16(a.t) \o Uint16(Len(a.v)) \o a.v \o Padding(Len(a.v))
\* the attribute bytes of Message.Raw
RECURSIVE Encode(_)
Encode(msg) ==
    IF msg = <<>> THEN <<>>
    ELSE EncodeAttribute(Head(msg)) \o Encode(Tail(msg))
\* the attributes Message.Write reads from raw bytes; it stops at bytes that
\* are no whole attribute
RECURSIVE Decode(_)
Decode(raw) ==
    IF Len(raw) < 4 THEN <<>>
    ELSE LET t == raw[1] * 256 + raw[2]
             l == raw[3] * 256 + raw[4]
             end == 4 + l + Len(Padding(l))
         IN IF Len(raw) < end THEN <<>>
            ELSE <<Attribute(t, SubSeq(raw, 5, 4 + l))>>
                 \o Decode(SubSeq(raw, end + 1, Len(raw)))

\* byte(n) of a non-negative int
Byte(n) == n % 256

\* what an AddTo leaves: the message, the error, and whether it panicked
Added(msg, err, panicked) == [msg |-> msg, err |-> err, panic |-> panicked]
\* what a GetFrom leaves: the destination and the error
Got(dst, err) == [dst |-> dst, err |-> err]

\* ErrorCodeAttribute.AddTo.  value is made with capacity
\* errorCodeReasonMaxB, so the reslice to errorCodeReasonStart + len(Reason)
\* panics when that is more.
ErrorCodeAttributeAddTo(msg, code, reason) ==
    IF Len(reason) > errorCodeReasonMaxB
    THEN Added(msg, CodecErr("AttrOverflow",
                             errorCodeReasonMaxB + errorCodeReasonStart,
                             Len(reason) + errorCodeReasonStart), FALSE)
    ELSE IF errorCodeReasonStart + Len(reason) > errorCodeReasonMaxB
    THEN Added(msg, CodecNil, TRUE)
    ELSE LET value ==
                 [i \in 1..(errorCodeReasonStart + Len(reason)) |->
                     IF i = errorCodeClassByte + 1
                     THEN Byte(code \div errorCodeModulo)
                     ELSE IF i = errorCodeNumberByte + 1
                     THEN Byte(code % errorCodeModulo)
                     ELSE IF i > errorCodeReasonStart
                     THEN reason[i - errorCodeReasonStart]
                     ELSE 0]
         IN Added(MessageAdd(msg, AttrErrorCode, value), CodecNil, FALSE)

\* ErrorCode.AddTo: ERROR-CODE with the default reason
ErrorCodeAddTo(msg, code) ==
    IF errorReasons(code) = <<>>
    THEN Added(msg, CodecErr("ErrNoDefaultReason", 0, 0), FALSE)
    ELSE ErrorCodeAttributeAddTo(msg, code, errorReasons(code))

\* the destination of ErrorCodeAttribute.GetFrom
ErrorCodeValue(code, reason) == [code |-> code, reason |-> reason]

\* ErrorCodeAttribute.GetFrom
ErrorCodeAttributeGetFrom(msg, dst) ==
    IF ~MessageHas(msg, AttrErrorCode)
    THEN Got(dst, CodecErr("ErrAttributeNotFound", 0, 0))
    ELSE LET v == MessageGet(msg, AttrErrorCode)
         IN IF Len(v) < errorCodeReasonStart
            THEN Got(dst, CodecErr("ErrUnexpectedEOF", 0, 0))
            ELSE Got(ErrorCodeValue(
                         v[errorCodeClassByte + 1] * errorCodeModulo
                             + v[errorCodeNumberByte + 1],
                         SubSeq(v, errorCodeReasonStart + 1, Len(v))),
                     CodecNil)

\* ReservationToken.AddTo
ReservationTokenAddTo(msg, t) ==
    IF Len(t) # reservationTokenSize
    THEN Added(msg, CodecErr("BadAttrLength", reservationTokenSize, Len(t)),
               FALSE)
    ELSE Added(MessageAdd(msg, AttrReservationToken, t), CodecNil, FALSE)

\* a mutation of ReservationTokenGetFrom: the length is not tested
ReservationTokenGetFromAny(msg, dst) ==
    IF ~MessageHas(msg, AttrReservationToken)
    THEN Got(dst, CodecErr("ErrAttributeNotFound", 0, 0))
    ELSE Got(MessageGet(msg, AttrReservationToken), CodecNil)

\* ReservationToken.GetFrom
ReservationTokenGetFrom(msg, dst) ==
    IF ~MessageHas(msg, AttrReservationToken)
    THEN Got(dst, CodecErr("ErrAttributeNotFound", 0, 0))
    ELSE LET v == MessageGet(msg, AttrReservationToken)
         IN IF Len(v) # reservationTokenSize
            THEN Got(dst, CodecErr("BadAttrLength", reservationTokenSize,
                                   Len(v)))
            ELSE Got(v, CodecNil)

\* ---- the values the codecs are run on ----
ReasonLengths == {0, 2, 759, 760, 763, 764}
TokenLengths == {0, 3, 8, 9}
\* a reason, and a token, of n bytes
BytesOf(n, first) == [i \in 1..n |-> (first + i) % 256]
\* codes with and without a name, in and around 300..699
Codes == NamedCodes \cup {438, 487, 699}
CodecInput(kind, code, bytes) == [kind |-> kind, code |-> code, bytes |-> bytes]
CodecInputs ==
    {CodecInput("ErrorCode", c, BytesOf(n, 64)) :
        c \in Codes, n \in ReasonLengths}
    \cup {CodecInput("ReservationToken", 0, BytesOf(n, 0)) : n \in TokenLengths}
\* what the destinations hold before a GetFrom
OldErrorCode == ErrorCodeValue(0, <<>>)
OldToken == BytesOf(reservationTokenSize, 100)

codecFrame == <<agentVars, sockVars, serveVars, turnVars>>

\* a value to encode, an empty message, and destinations that hold the
\* result of an earlier decoding
CodecInitOn(input) ==
    /\ codecIn = input
    /\ codecMsg = <<>>
    /\ codecErr = CodecNil
    /\ codecCode = OldErrorCode
    /\ codecToken = OldToken
    /\ codecPanic = FALSE
    /\ codecOps = <<>>
CodecInit == CodecInitOn(CodecInput("ErrorCode", CodeBadRequest, <<>>))

CodecRuns(op) ==
    /\ ~codecPanic
    /\ Len(codecOps) < MaxCodecOps
    /\ codecOps' = Append(codecOps, op)
    /\ UNCHANGED codecFrame

\* a.AddTo(m) for the ErrorCodeAttribute (code, reason) of the input
AddErrorCodeAttribute ==
    /\ CodecRuns("ErrorCodeAttribute.AddTo")
    /\ codecIn.kind = "ErrorCode"
    /\ LET r == ErrorCodeAttributeAddTo(codecMsg, codecIn.code, codecIn.bytes)
       IN /\ codecMsg' = r.msg
          /\ codecErr' = r.err
          /\ codecPanic' = r.panic
    /\ UNCHANGED <<codecIn, codecCode, codecToken>>

\* c.AddTo(m) for the ErrorCode of the input
AddErrorCode ==
    /\ CodecRuns("ErrorCode.AddTo")
    /\ codecIn.kind = "ErrorCode"
    /\ LET r == ErrorCodeAddTo(codecMsg, codecIn.code)
       IN /\ codecMsg' = r.msg
          /\ codecErr' = r.err
          /\ codecPanic' = r.panic
    /\ UNCHANGED <<codecIn, codecCode, codecToken>>

\* c.GetFrom(m) into an ErrorCodeAttribute
GetErrorCode ==
    /\ CodecRuns("ErrorCodeAttribute.GetFrom")
    /\ LET r == ErrorCodeAttributeGetFrom(codecMsg, codecCode)
       IN /\ codecCode' = r.dst
          /\ codecErr' = r.err
    /\ UNCHANGED <<codecIn, codecMsg, codecToken, codecPanic>>

\* t.AddTo(m) for the token of the input
AddReservationToken ==
    /\ CodecRuns("ReservationToken.AddTo")
    /\ codecIn.kind = "ReservationToken"
    /\ LET r == ReservationTokenAddTo(codecMsg, codecIn.bytes)
       IN /\ codecMsg' = r.msg
          /\ codecErr' = r.err
          /\ codecPanic' = r.panic
    /\ UNCHANGED <<codecIn, codecCode, codecToken>>

\* t.GetFrom(m) into a ReservationToken
GetReservationToken ==
    /\ CodecRuns("ReservationToken.GetFrom")
    /\ LET r == ReservationTokenGetFrom(codecMsg, codecToken)
       IN /\ codecToken' = r.dst
          /\ codecErr' = r.err
    /\ UNCHANGED <<codecIn, codecMsg, codecCode, codecPanic>>

\* m.Add(type, bytes): the input's bytes become the value of the attribute
\* as they are
AddBytes ==
    /\ CodecRuns("Message.Add")
    /\ codecMsg' = MessageAdd(codecMsg,
                              IF codecIn.kind = "ErrorCode" THEN AttrErrorCode
                              ELSE AttrReservationToken,
                              codecIn.bytes)
    /\ codecErr' = CodecNil
    /\ UNCHANGED <<codecIn, codecCode, codecToken, codecPanic>>

\* decoded.Write(m.Raw): the message goes over the wire
WriteRaw ==
    /\ CodecRuns("Message.Write")
    /\ codecMsg' = Decode(Encode(codecMsg))
    /\ codecErr' = CodecNil
    /\ UNCHANGED <<codecIn, codecCode, codecToken, codecPanic>>
AgentNext ==
    \E t \in Threads :
          \/ Begin(t)
          \/ StartBody(t)
          \/ StopBody(t)
          \/ StopAfter(t)
          \/ ProcessBody(t)
          \/ ProcessAfter(t)
          \/ ProcessZero(t)
          \/ CollectBody(t)
          \/ CollectLoop(t)
          \/ CloseBody(t)
          \/ CloseLoop(t)
          \/ HandlerReturn(t)

\* the agent alone; the socket stays as newStunServerSock made it
AgentStart == AgentInit /\ SockInit /\ ServeInit /\ TurnInit /\ CodecInit
AgentSpec == AgentStart /\ [][AgentNext]_vars

SockNext ==
    \/ \E c \in Callers :
          \/ SyncBegin(c)
          \/ AddWaiter(c)
          \/ SendData(c)
          \/ Enqueue(c)
          \/ WaitEnter(c)
          \/ TimerFire(c)
    \/ ReaderReceive
    \/ ReaderTakeWaiter
    \/ ReaderExit
    \/ ReaderDeliver
    \/ ReaderCloseCh
    \/ WriterStep
    \/ CloseStart
    \/ CloseConn
    \/ CloseSendchan
    \/ CloseRange
    \/ CloseRemove
    \/ CloseCh

\* the socket alone; the agent stays as NewAgent made it
SockStart == AgentInit /\ ~zeroHandler /\ SockInit /\ ServeInit /\ TurnInit /\ CodecInit
SockSpec == SockStart /\ [][SockNext]_vars

\* the scheduler runs every goroutine that can run and every timer fires; when
\* Close is called, when a send begins and when a datagram comes in is up to
\* the environment
SockFairness ==
    /\ \A c \in Callers :
          /\ WF_vars(AddWaiter(c))
          /\ WF_vars(SendData(c))
          /\ WF_vars(Enqueue(c))
          /\ WF_vars(WaitEnter(c))
          /\ WF_vars(TimerFire(c))
    /\ WF_vars(ReaderTakeWaiter)
    /\ WF_vars(ReaderDeliver)
    /\ WF_vars(ReaderCloseCh)
    /\ WF_vars(ReaderExit)
    /\ WF_vars(WriterStep)
    /\ WF_vars(CloseConn)
    /\ WF_vars(CloseSendchan)
    /\ WF_vars(CloseRange)
    /\ WF_vars(CloseRemove)
    /\ WF_vars(CloseCh)

SockFairSpec == SockSpec /\ SockFairness


ServeNext ==
    \/ ServeConnStep
    \/ SyncParks
    \/ SyncTimesOut
    \/ Tick
    \/ AsyncSend
    \/ DataSend
    \/ ChannelBind
    \/ FinishNegotiation

\* the read task's dispatch and the calls of the layer above; the sync send,
\* the writer and Close stay as newStunServerSock made them
ServeStart == AgentInit /\ ~zeroHandler /\ SockInit /\ ServeInit /\ TurnInit /\ CodecInit
ServeSpec == ServeStart /\ [][ServeNext]_vars


RefreshNext ==
    \/ TsFinishNegotiation
    \/ KeepAliveSend
    \/ KeepAliveTimer
    \/ KeepAliveStop
    \/ RefreshSend
    \/ RefreshAnswered
    \/ RefreshTimer
    \/ RefreshStop
    \/ TsClose

\* the goroutines of StartRefresh and the calls FinishNegotiation and Close of
\* the session; the other layers stay as the constructors made them
RefreshStart ==
    /\ AgentInit /\ ~zeroHandler /\ SockInit /\ ServeInit /\ TurnInit
    /\ CodecInit
RefreshSpec == RefreshStart /\ [][RefreshNext]_vars

\* the scheduler runs every goroutine that can run, and sendStunMessageSync
\* returns (with a response or with its timeout); when the session calls
\* FinishNegotiation and Close, and whether a timer fires before Close, is up
\* to the environment
RefreshFairness ==
    /\ WF_vars(KeepAliveSend)
    /\ WF_vars(KeepAliveStop)
    /\ WF_vars(RefreshSend)
    /\ WF_vars(RefreshAnswered)
    /\ WF_vars(RefreshStop)
RefreshFairSpec == RefreshSpec /\ RefreshFairness

CodecNext ==
    \/ AddErrorCodeAttribute
    \/ AddErrorCode
    \/ GetErrorCode
    \/ AddReservationToken
    \/ GetReservationToken
    \/ AddBytes
    \/ WriteRaw

\* the codecs run on every value of CodecInputs, on a message that starts
\* empty
CodecStart ==
    /\ AgentInit /\ ~zeroHandler /\ SockInit /\ ServeInit /\ TurnInit
    /\ \E input \in CodecInputs : CodecInitOn(input)
CodecSpec == CodecStart /\ [][CodecNext]_vars
(***************************************************************************)
(* Properties of stun.Agent, checked under AgentSpec.                      *)
(***************************************************************************)
\* a thread took the handler out of the map and has not invoked it yet
Pending(h) == \E t \in Threads : h \in aloc[t].toCall

Started == {h \in OpNos : started[h] # NoReg}

\* thread t takes a step of its call
Steps(t) == apc'[t] # apc[t] \/ aloc'[t] # aloc[t]

\* thread t returns from its call
Returns(t) == apc[t] # "idle" /\ apc'[t] = "idle"

\* C1 as stated: the handler of every transaction that Start registered is
\* never invoked twice, and it has been invoked once when Close has completed.
C1_OnceByCloseCompletion ==
    \A h \in Started : /\ Len(calls[h]) <= 1
                       /\ closed => Len(calls[h]) = 1

\* C1 amended: the handler of every transaction that Start registered is never
\* invoked twice; once Close has completed, it has been invoked exactly once
\* unless a Process, Stop or Collect call that took the transaction out of the
\* map before Close ran is still about to invoke it.
C1_HandlerOnce ==
    \A h \in Started : /\ Len(calls[h]) <= 1
                       /\ (closed /\ ~Pending(h)) => Len(calls[h]) = 1

\* Close has completed after another call consumed a transaction
C1_Witness ==
    /\ closed
    /\ \E h \in Started : Len(calls[h]) = 1 /\ calls[h][1].err # "ErrAgentClosed"

\* C2: no agent operation runs a transaction handler or the default handler
\* while it holds the agent's mutex.
C2_NoHandlerUnderMutex == \A t \in Threads : InHandler(t) => mux # t

\* C3: an id holds one registration at a time.  A registration that no call
\* has consumed is in the map with the handler and deadline of the Start that
\* returned nil; a Start on a registered id returns ErrTransactionExists and
\* leaves the map as it is; a Start on an open agent returns nil exactly when
\* the id was not registered.
C3_StartUnique ==
    [][/\ \A h \in OpNos :
            (started'[h] # NoReg /\ calls'[h] = <<>> /\ ~Pending(h)')
              => transactions'[started'[h].id] =
                   [h |-> h, deadline |-> started'[h].deadline]
       /\ \A t \in Threads :
            (apc[t] = "start_body" /\ Returns(t)) =>
              /\ ~closed => (aret'[t] = "nil") = (transactions[aop[t].id] = NoTx)
              /\ ~closed => aret'[t] \in {"nil", "ErrTransactionExists"}
              /\ aret'[t] = "ErrTransactionExists" =>
                    /\ transactions' = transactions
                    /\ started' = started
              /\ aret'[t] = "nil" =>
                    /\ transactions'[aop[t].id] =
                         [h |-> aop[t].h, deadline |-> aop[t].deadline]
                    /\ \A i \in TxIds \ {aop[t].id} :
                          transactions'[i] = transactions[i]]_vars

\* two Starts of one id: the first holds the registration, the second was refused
C3_Witness ==
    /\ \E t \in Threads : aret[t] = "ErrTransactionExists"
    /\ \E h \in Started : calls[h] = <<>> /\ transactions[started[h].id].h = h

\* C4: Close invokes the handler of every transaction registered at that
\* moment with ErrAgentClosed; closed stays true; a call that takes the mutex
\* of a closed agent returns ErrAgentClosed, registers nothing and invokes no
\* transaction handler and no default handler.
C4_ClosePermanent ==
    [][/\ closed => closed'
       /\ closed' => \A id \in TxIds : transactions'[id] = NoTx
       /\ (~closed /\ closed') =>
             \A h \in Registered : calls'[h] = <<Event(0, "ErrAgentClosed")>>
       /\ \A t \in Threads :
            (aop[t].lockedClosed /\ Steps(t)) =>
               /\ Returns(t)
               /\ aret'[t] = "ErrAgentClosed"
               /\ calls' = calls
               /\ zeroCalls' = zeroCalls
               /\ started' = started]_vars

\* Close rejected a transaction and a later call was refused
C4_Witness ==
    /\ closed
    /\ \E h \in Started : calls[h] = <<Event(0, "ErrAgentClosed")>>
    /\ \E t \in Threads : aret[t] = "ErrAgentClosed"

\* C5 as stated: Process(m) that finds the agent open deregisters the
\* transaction of m's id and invokes its handler with Event{m, nil} and not the
\* default handler; when the id is not registered it invokes the default
\* handler with m if one is configured and does nothing otherwise; the other
\* transactions stay registered and their handlers are not invoked.
C5_Process ==
    [][\A t \in Threads :
         /\ (apc[t] = "process_body" /\ ~closed /\ Steps(t)) =>
               /\ transactions' = [transactions EXCEPT ![aop[t].id] = NoTx]
               /\ calls' = calls
               /\ zeroCalls' = zeroCalls
         /\ (apc[t] = "process_after" /\ Steps(t)) =>
               /\ transactions' = transactions
               /\ zeroCalls' = zeroCalls
               /\ IF aloc[t].exists
                    THEN \E h \in aloc[t].removed :
                           calls' = [calls EXCEPT ![h] =
                                       Append(@, Event(aop[t].no, "nil"))]
                    ELSE /\ calls' = calls
                         /\ Returns(t) = ~aop[t].zh
         /\ (apc[t] = "process_zero" /\ Steps(t)) =>
               /\ zeroCalls' = Append(zeroCalls, Event(aop[t].no, "nil"))
               /\ calls' = calls
               /\ transactions' = transactions
               /\ ~aCrashed']_vars

\* C6 as stated: Stop(id, err) on a registered id removes the transaction and
\* invokes its handler with Event{nil, err}; on an id that is not registered it
\* returns ErrTransactionNotExists, invokes no handler and changes no state.
C6_StopAnyAgent ==
    [][\A t \in Threads :
         /\ (apc[t] = "stop_body" /\ Steps(t)) =>
               /\ transactions' = [transactions EXCEPT ![aop[t].id] = NoTx]
               /\ calls' = calls
               /\ apc'[t] = "stop_after"
               /\ aloc'[t].exists = (transactions[aop[t].id] # NoTx)
         /\ (apc[t] = "stop_after" /\ Steps(t)) =>
               /\ transactions' = transactions
               /\ IF aloc[t].exists
                    THEN \E h \in aloc[t].removed :
                           calls' = [calls EXCEPT ![h] =
                                       Append(@, Event(0, aop[t].err))]
                    ELSE /\ calls' = calls
                         /\ Returns(t)
                         /\ aret'[t] = "ErrTransactionNotExists"]_vars

\* C6 amended: on an open agent, Stop(id, err) on a registered id removes the
\* transaction and invokes its handler with Event{nil, err}, and on an id that
\* is not registered it returns ErrTransactionNotExists, invokes no handler and
\* changes no state; on a closed agent (where no id is registered) it returns
\* ErrAgentClosed, invokes no handler and changes no state.
C6_Stop ==
    [][\A t \in Threads :
         /\ (apc[t] = "stop_body" /\ Steps(t)) =>
               /\ calls' = calls
               /\ IF closed
                    THEN /\ transactions' = transactions
                         /\ Returns(t)
                         /\ aret'[t] = "ErrAgentClosed"
                    ELSE /\ transactions' = [transactions EXCEPT ![aop[t].id] = NoTx]
                         /\ apc'[t] = "stop_after"
                         /\ aloc'[t].exists = (transactions[aop[t].id] # NoTx)
         /\ (apc[t] = "stop_after" /\ Steps(t)) =>
               /\ transactions' = transactions
               /\ IF aloc[t].exists
                    THEN \E h \in aloc[t].removed :
                           calls' = [calls EXCEPT ![h] =
                                       Append(@, Event(0, aop[t].err))]
                    ELSE /\ calls' = calls
                         /\ Returns(t)
                         /\ aret'[t] = "ErrTransactionNotExists"]_vars

\* a handler got the error of a StopWithError, and a second Stop of the id
\* was answered ErrTransactionNotExists
C6_Witness ==
    /\ \E h \in Started : calls[h] = <<Event(0, "ErrCustom")>>
    /\ \E t \in Threads : aret[t] = "ErrTransactionNotExists"

\* C7: Collect(gcTime) on an open agent removes exactly the transactions whose
\* deadline is strictly before gcTime and invokes the handler of each of them
\* with ErrTransactionTimeOut before it returns; the transactions with a
\* deadline at or after gcTime stay registered and their handlers are not invoked.
C7_Collect ==
    [][\A t \in Threads :
         /\ (apc[t] = "collect_body" /\ ~closed /\ Steps(t)) =>
               /\ transactions' =
                    [id \in TxIds |->
                       IF transactions[id] # NoTx
                          /\ transactions[id].deadline < aop[t].gcTime
                         THEN NoTx ELSE transactions[id]]
               /\ aloc'[t].toCall =
                    {h \in Registered :
                       \E id \in TxIds : /\ transactions[id].h = h
                                         /\ transactions[id].deadline < aop[t].gcTime}
               /\ aloc'[t].removed = aloc'[t].toCall
               /\ calls' = calls
         /\ (apc[t] = "collect_loop" /\ Steps(t)) =>
               /\ transactions' = transactions
               /\ IF Returns(t)
                    THEN /\ aret'[t] = "nil"
                         /\ calls' = calls
                         /\ \A h \in aloc[t].removed :
                              calls[h] = <<Event(0, "ErrTransactionTimeOut")>>
                    ELSE \E h \in aloc[t].toCall :
                           calls' = [calls EXCEPT ![h] =
                                       Append(@, Event(0, "ErrTransactionTimeOut"))]]_vars

\* a Collect timed one transaction out and left one whose deadline is gcTime
C7_Witness ==
    \E t \in Threads :
       /\ apc[t] = "collect_loop"
       /\ aloc[t].toCall = {}
       /\ \E h \in aloc[t].removed : calls[h] = <<Event(0, "ErrTransactionTimeOut")>>
       /\ \E id \in TxIds : /\ transactions[id] # NoTx
                            /\ transactions[id].deadline = aop[t].gcTime


(***************************************************************************)
(* Properties of the synchronous send of stunServerSock / turnServerSock   *)
(***************************************************************************)
\* caller c's sendStunMessageSync returns in this step
SyncReturns(c) == cpc[c] # "idle" /\ cpc'[c] = "idle"

\* C8: whenever a synchronous send has returned with a response, with Timeout
\* or with WaiterClosed, the waiter map holds no entry for its request: the
\* entry that the call registered is gone when the call returns.
C8_NoDanglingWaiter ==
    [][\A c \in Callers :
          (/\ SyncReturns(c)
           /\ cret'[c].err \in {"nil", "errTimeout", "errWaiterClosed"})
          => waiters'[cop[c].tid] # cop[c].ch]_vars

\* what Close does for the calls that wait: a call whose channel is closed when
\* it returns returns WaiterClosed (never Timeout, never a response), no call
\* stays parked on a closed channel, and when Close has run to its end no entry
\* that was in the map when Close began to range over it is left
C9_Waiters ==
    /\ \A c \in Callers :
          (SyncReturns(c) /\ cop[c].ch \in chClosed')
          => cret'[c].err = "errWaiterClosed"
    /\ \A c \in Callers : cpc'[c] = "parked" => cop'[c].ch \notin chClosed'
    /\ kpc' = "done" => ksnap' \cap Entries' = {}

\* C9: Close fails every synchronous send that is outstanding with WaiterClosed
\* and leaves the waiter map empty: once Close ranges over the waiters it runs
\* to its end, every waiter that was in the map is then removed, and the calls
\* that waited on them have returned WaiterClosed.
C9_CloseFailsOutstanding ==
    /\ [][C9_Waiters]_vars
    /\ (kpc = "range") ~> (kpc = "done")

\* the results a synchronous send can return with, and what they go with
C10_Results ==
    \A c \in Callers :
       SyncReturns(c) =>
          /\ cret'[c].err \in {"nil", "errTimeout", "errWaiterClosed",
                               "errDuplicateWaiter"}
          /\ cret'[c].err = "nil" <=> cret'[c].res # NoMsg
          /\ cret'[c].err = "nil" => cret'[c].res.tid = cop[c].tid
          /\ cret'[c].err = "errDuplicateWaiter" =>
                /\ waiters[cop[c].tid] # 0
                /\ sendchan' = sendchan
                /\ sent' = sent

\* C10: a synchronous send always eventually returns, and it returns the
\* message with the request's transaction id, Timeout, WaiterClosed, or the
\* duplicate-waiter error after sending nothing; never a message with another
\* transaction id.
C10_SyncReturns ==
    /\ [][C10_Results]_vars
    /\ \A c \in Callers : (cpc[c] # "idle") ~> (cpc[c] = "idle")

\* what is true of C10: the results are as stated, and a send returns unless
\* the process has ended in a panic
C10_ReturnsUnlessPanic ==
    /\ [][C10_Results]_vars
    /\ \A c \in Callers : (cpc[c] # "idle") ~> (cpc[c] = "idle" \/ sCrashed)

\* the read task looks up the waiter of the message it has read
ReaderLooksUp == rpc = "received" /\ rpc' # "received"

\* C11: responses are matched to pending synchronous requests by transaction id
\* only.  A message whose id has a waiter is matched with that waiter whatever
\* address it came from; a message with another id touches no other waiter,
\* whatever address it came from; and a call that returns a message returns
\* the one with its own id, handed over on its own channel.
C11_MatchByIdOnly ==
    [][/\ (ReaderLooksUp /\ waiters[rmsg.tid] # 0) =>
             /\ rpc' = "deliver"
             /\ rch' = waiters[rmsg.tid]
             /\ waiters'[rmsg.tid] = 0
       /\ ReaderLooksUp =>
             \A k \in TxIds \ {rmsg.tid} : waiters'[k] = waiters[k]
       /\ \A c \in Callers :
             (SyncReturns(c) /\ cret'[c].err = "nil") =>
                /\ rmsg.tid = cop[c].tid
                /\ rch = cop[c].ch
                /\ cret'[c].res.tid = cop[c].tid]_vars

\* a message from another address than the request's destination is about to be
\* handed to the caller that waits for its transaction id
C11_Witness ==
    /\ rpc = "deliver"
    /\ rmsg.from = "other"
    /\ \E c \in Callers : cpc[c] = "parked" /\ cop[c].ch = rch /\ cop[c].tid = rmsg.tid

\* the read task hands a response to caller c in this step
GetsResponse(c) == SyncReturns(c) /\ cret'[c].err = "nil"
\* a channel operation of the read task or of Close panics in this step: a
\* send on a closed waiter channel, or a second close of one
WaiterChannelPanics ==
    /\ sCrashed'
    /\ \/ ReaderDeliver
       \/ ReaderCloseCh
       \/ CloseCh

\* C33: however the read task that delivers a response and Close interleave,
\* a waiter channel gets at most one response and is closed at most once:
\* no step closes a closed waiter channel or sends on one, and a caller that
\* is handed the response is handed it on a channel that is not closed
C33_WaiterChannelOnce ==
    [][/\ ~WaiterChannelPanics
       /\ \A c \in Callers : GetsResponse(c) => cop[c].ch \notin chClosed']_vars

\* the read task is inside stunMessageReceived
ReaderHandles == rpc \in {"received", "deliver", "closech"}
\* the read task is back in c.ReadFrom, or Serve has returned
ReaderReceives == rpc \in {"recv", "exited"}
\* the read task is in `ch <- ...` on a channel whose caller has returned and
\* that nobody will close
ReaderStuck ==
    /\ rpc = "deliver"
    /\ rch \notin chClosed
    /\ \A c \in Callers : cop[c].ch # rch
    /\ kcur.ch # rch

\* C34: the read task never blocks for ever: after it has taken a datagram it
\* comes back to receiving the next one (or the process has ended in a
\* panic), and it is never in the send to a waiter whose caller has returned
C34_ReaderNeverBlocks ==
    /\ [](~ReaderStuck)
    /\ ReaderHandles ~> (ReaderReceives \/ sCrashed)

\* C35: a send that runs together with Close or after it never puts anything
\* on the closed send queue: a send that finds the stopped flag set returns
\* without queueing, and no step of a send is a send on the closed queue
C35_NoSendOnClosedQueue ==
    [][\A c \in Callers :
          /\ (SendData(c) /\ stoped)
             => (cpc'[c] # "enqueue" /\ sendchan' = sendchan)
          /\ Enqueue(c) => (~sendClosed /\ ~sCrashed')]_vars
(***************************************************************************)
(* Properties of the read task's dispatch                                  *)
(***************************************************************************)
ServeTypeOK ==
    /\ mode \in Modes
    /\ nIn \in 0..MaxIn
    /\ nApp \in 0..MaxApp

\* the messages this step hands to the message callback of the layer above,
\* to the data callback, to the writer and to waiting channels
NewStun == {cbStun'[i] : i \in (Len(cbStun) + 1)..Len(cbStun')}
NewData == {cbData'[i] : i \in (Len(cbData) + 1)..Len(cbData')}
NewWire == {wire'[i] : i \in (Len(wire) + 1)..Len(wire')}
NewDelivered == {delivered'[i] : i \in (Len(delivered) + 1)..Len(delivered')}
IsResponse(m) == m.class \in {"success", "error"}

\* C12: once a response for a transaction id has been delivered to its
\* synchronous caller, a later inbound response with the same transaction id
\* is not handed to the STUN-message callback of the layer above.
C12_DuplicateDiscarded ==
    [][\A e \in NewStun :
          IsResponse(e.m)
            => ~\E j \in 1..Len(delivered) : delivered[j].m.tid = e.m.tid]_vars

\* the layer above has sent a response to the request e it was handed: from
\* the bound address straight to the requester, or from the relayed address,
\* which goes to the TURN server inside a Send indication
ResponseSent(e) ==
    \E k \in 1..Len(wire) :
        LET p == wire[k] IN
        /\ p.d.stun
        /\ IF e.local = Addr
             THEN /\ p.to = e.from
                  /\ IsResponse(p.d.m)
                  /\ p.d.m.method = e.m.method
                  /\ p.d.m.tid = e.m.tid
             ELSE /\ p.to = ServerAddr
                  /\ p.d.m.method = "Send"
                  /\ p.d.m.peer = e.from
                  /\ p.d.m.dkind = "stun"
                  /\ p.d.m.iclass \in {"success", "error"}
                  /\ p.d.m.imethod = e.m.method
                  /\ p.d.m.itid = e.m.tid
\* the request e is handed to the layer above in this step although the layer
\* above was handed it before and has answered it; the clock has not moved
\* since the socket was made, so the answer is younger than the TTL
HandlerRunsAgain(e) ==
    /\ e \in NewStun
    /\ e.m.class = "request"
    /\ now = 0
    /\ \E j \in 1..Len(cbStun) : cbStun[j] = e
    /\ ResponseSent(e)
\* what the read task puts on the wire is a packet that went out before
ResendsOnly ==
    nIn' # nIn => \A p \in NewWire : \E k \in 1..Len(wire) : wire[k] = p

\* C13, for requests that arrive on the bound address: a request that comes
\* again within the TTL after the layer above has answered it does not reach
\* the layer above again, and the response the socket sends is the one that
\* was sent before
C13_DirectIdempotent ==
    [][/\ \A e \in NewStun : e.local = Addr => ~HandlerRunsAgain(e)
       /\ ResendsOnly]_vars

\* C13: when the same request (method and transaction id) is received twice
\* within the cache TTL, the second time after the layer above has sent its
\* response, the handler of the layer above is invoked at most once and the
\* second response on the wire is identical to the first, both for requests
\* on the bound address and for requests that come through the TURN relay in
\* a Data indication and are answered from the relayed address.
C13_CacheIdempotent ==
    [][/\ \A e \in NewStun : ~HandlerRunsAgain(e)
       /\ ResendsOnly]_vars

\* the read task handles the datagram g in this step
Handles(g) == nIn' # nIn /\ ServeConnOn(g)
\* a Binding request with transaction id t that comes in on the bound address
RequestOn(t) == [from |-> "peerA", d |-> Raw(Msg("Binding", "request", t))]
\* the cache holds a response under t that is older than the TTL
CachedExpired(t) ==
    /\ cachedResponse[t] # NoCached
    /\ cachedResponse[t].cacheTime + StunResponseCacheDuration < now
\* a request that meets an expired entry: the entry goes, nothing is sent and
\* the request is handed to the layer above
ExpiredIsSurfaced(t) ==
    /\ cachedResponse'[t] = NoCached
    /\ NewWire = {}
    /\ NewStun = {UpStun(Addr, "peerA", Msg("Binding", "request", t))}
\* what the read task sends is a cached response that is not older than the
\* TTL, and the cache holds responses only
CacheWithinTTL ==
    /\ nIn' # nIn =>
          \A p \in NewWire :
              \E id \in TxIds : /\ cachedResponse[id] # NoCached
                                /\ ~CachedExpired(id)
                                /\ p.d = Raw(cachedResponse[id].m)
    /\ \A id \in TxIds :
          cachedResponse'[id] # NoCached => IsResponse(cachedResponse'[id].m)

\* C14 as stated: a request whose transaction id matches a cached response older
\* than the TTL is never answered from the cache; the expired entry is removed
\* and the request is handed to the layer above.  Only responses are cached.
C14_ExpiredAlwaysSurfaced ==
    [][/\ (Handles(RequestOn("idA")) /\ CachedExpired("idA"))
             => ExpiredIsSurfaced("idA")
       /\ CacheWithinTTL]_vars

\* C14, amended: the same, for a request whose transaction id no synchronous
\* send has a waiter registered under; a request with the id of a waiter is
\* matched with the waiter before the cache is looked at
C14_ExpiredSurfaced ==
    [][/\ (Handles(RequestOn("idA")) /\ CachedExpired("idA")
                                         /\ waiters["idA"] = 0)
             => ExpiredIsSurfaced("idA")
       /\ CacheWithinTTL]_vars

\* the request idA was handed up, answered, and handed up again after the
\* answer had expired and was removed
C14_Witness ==
    /\ cachedResponse["idA"] = NoCached
    /\ \E k \in 1..Len(wire) :
          wire[k] = Packet("peerA", Raw(Msg("Binding", "success", "idA")))
    /\ cbStun = <<UpStun(Addr, "peerA", Msg("Binding", "request", "idA")),
                  UpStun(Addr, "peerA", Msg("Binding", "request", "idA"))>>
    /\ now > StunResponseCacheDuration

\* the call of the layer above puts exactly the packet p on the wire
SendsExactly(p) == wire' = Append(wire, p)
Bound(toaddr) ==
    /\ address2ChannelNumber[toaddr] >= MinChannelNumber
    /\ address2ChannelNumber[toaddr] <= MaxChannelNumber

\* C15: turnServerSock.sendData(bytes, from, to) sends the bytes as they are
\* to `to` when from is the bound address; when from is the relayed address
\* it sends exactly one packet, to the TURN server: ChannelData(n, bytes) when
\* `to` is bound to channel n, else a Send indication with XOR-PEER-ADDRESS =
\* to and DATA = bytes.
C15_OutboundRouting ==
    [][\A toaddr \in Peers :
          /\ (nApp' # nApp /\ DataSendOn(Addr, toaddr))
                => SendsExactly([to |-> toaddr,
                                 d |-> [stun |-> FALSE, bytes |-> "d1", m |-> NoM]])
          /\ (nApp' # nApp /\ DataSendOn(RelayAddress, toaddr))
                => /\ Len(wire') = Len(wire) + 1
                   /\ \A i \in 1..Len(wire) : wire'[i] = wire[i]
                   /\ LET p == wire'[Len(wire')] IN
                      /\ p.to = ServerAddr
                      /\ p.d.stun
                      /\ p.d.m.dkind = "raw"
                      /\ p.d.m.dbytes = "d1"
                      /\ IF Bound(toaddr)
                           THEN /\ p.d.m.method = "ChannelData"
                                /\ p.d.m.chan = address2ChannelNumber[toaddr]
                           ELSE /\ p.d.m.method = "Send"
                                /\ p.d.m.class = "indication"
                                /\ p.d.m.peer = toaddr]_vars

\* peerA was bound to a channel and data was then sent to it from the relayed
\* address
C15_Witness ==
    /\ Len(wire) = 2
    /\ wire[1].d.m.method = "ChannelBind" /\ wire[1].d.m.peer = "peerA"
    /\ wire[2] = [to |-> ServerAddr,
                  d |-> Raw([Msg("ChannelData", "request", "none")
                                EXCEPT !.chan = MinChannelNumber,
                                       !.dkind = "raw", !.dbytes = "d1"])]
    /\ address2ChannelNumber["peerA"] = MinChannelNumber

\* a ChannelData frame from the TURN server on channel n, with application
\* data and with an encoded Binding request as payload
ChannelDataOn(n) ==
    [from |-> ServerAddr,
     d |-> Raw([Msg("ChannelData", "indication", "idB")
                   EXCEPT !.chan = n, !.dkind = "raw", !.dbytes = "d1"])]
ChannelStunOn(n) ==
    [from |-> ServerAddr,
     d |-> Raw([Msg("ChannelData", "indication", "idB")
                   EXCEPT !.chan = n, !.dkind = "stun", !.imethod = "Binding",
                          !.iclass = "request", !.itid = "idA"])]

\* C16: in TurnData mode a ChannelData frame on a bound channel n with
\* application data as payload is handed to the data callback with the relayed
\* address as local address, the peer bound to n as remote address, and the
\* payload bytes as they came.
C16_ChannelDataSurfaced ==
    [][\A n \in ChanNos :
          (/\ Handles(ChannelDataOn(n))
           /\ mode = "turnModeData"
           /\ ChannelPeer(n) # "none")
          => [local |-> RelayAddress, from |-> ChannelPeer(n),
              d |-> [stun |-> FALSE, bytes |-> "d1", m |-> NoM]] \in NewData]_vars

\* C17: a ChannelData frame that comes from the TURN server in Negotiation mode
\* with an encoded STUN message as payload is fed in again as that message with
\* the relayed address as local address: the message goes to the waiter with
\* its transaction id, is answered from the response cache, or is handed to the
\* STUN-message callback of the layer above; it is not dropped.
C17_NegotiationChannelDataRefed ==
    [][\A n \in ChanNos :
          (Handles(ChannelStunOn(n)) /\ mode = "stageNegotiation")
          => \/ \E e \in NewStun :
                   /\ e.local = RelayAddress
                   /\ e.m = Msg("Binding", "request", "idA")
             \/ \E r \in NewDelivered : r.m = Msg("Binding", "request", "idA")
             \/ NewWire # {}]_vars

\* a Data indication from the TURN server with XOR-PEER-ADDRESS peerA whose
\* DATA is the encoded Binding message of class c and id idA, or the bytes d1
DataIndicationOf(c) ==
    [from |-> ServerAddr,
     d |-> Raw([Msg("Data", "indication", "idB")
                   EXCEPT !.peer = "peerA", !.dkind = "stun",
                          !.imethod = "Binding", !.iclass = c, !.itid = "idA"])]
DataIndicationRaw ==
    [from |-> ServerAddr,
     d |-> Raw([Msg("Data", "indication", "idB")
                   EXCEPT !.peer = "peerA", !.dkind = "raw", !.dbytes = "d1"])]
\* the message m that came from peerA to the relayed address is dispatched as
\* stunMessageReceived dispatches: to the waiter with its id if there is one,
\* else answered from the cache if a fresh response is cached for it, else
\* handed to the layer above
DispatchedFromRelay(m) ==
    IF waiters[m.tid] # 0
    THEN /\ waiters'[m.tid] = 0
         /\ waiters[m.tid] \in parked
               => NewDelivered = {[ch |-> waiters[m.tid], from |-> "peerA", m |-> m]}
         /\ NewStun = {}
    ELSE IF /\ cachedResponse[m.tid] # NoCached
            /\ ~CachedExpired(m.tid)
            /\ cachedResponse[m.tid].m.method = m.method
    THEN /\ NewWire = {[to |-> "peerA", d |-> Raw(cachedResponse[m.tid].m)]}
         /\ NewStun = {}
    ELSE NewStun = {[local |-> RelayAddress, from |-> "peerA", m |-> m]}

\* the Data indication with the Binding message of class c is unwrapped and
\* its payload dispatched; the one with the bytes d1 is unwrapped and the
\* bytes handed to the data callback with peerA as source
StunUnwrapped(c) ==
    /\ ~tPanic'
    /\ NewData = {}
    /\ DispatchedFromRelay(Msg("Binding", c, "idA"))
RawUnwrapped ==
    /\ ~tPanic'
    /\ NewStun = {}
    /\ \E e \in NewData :
          /\ e.from = "peerA"
          /\ e.d = [stun |-> FALSE, bytes |-> "d1", m |-> NoM]

\* C18 as stated: a Data indication from the TURN server with a non-empty DATA
\* and an XOR-PEER-ADDRESS is unwrapped.  A payload that decodes as a STUN
\* request, success response or error response is dispatched as a STUN message
\* with the relayed address as local address and the XOR-PEER-ADDRESS as
\* source (waiter matching, response cache, callback of the layer above); none
\* of these makes the socket panic or is dropped.  A payload that is no STUN
\* message is handed to the data callback with the XOR-PEER-ADDRESS as source.
C18_DataIndicationAlwaysUnwrapped ==
    [][/\ \A c \in {"request", "success", "error"} :
             Handles(DataIndicationOf(c)) => StunUnwrapped(c)
       /\ Handles(DataIndicationRaw) => RawUnwrapped]_vars

\* C18, amended: the same for a Data indication whose own transaction id no
\* synchronous send has a waiter registered under; an indication with the id
\* of a waiter is handed to the waiter as it is, before it is unwrapped
C18_DataIndicationUnwrapped ==
    [][/\ \A c \in {"request", "success", "error"} :
             (Handles(DataIndicationOf(c)) /\ waiters["idB"] = 0)
                => StunUnwrapped(c)
       /\ (Handles(DataIndicationRaw) /\ waiters["idB"] = 0)
             => RawUnwrapped]_vars

\* the first datagram was a Data indication carrying a Binding request, and
\* the request was handed to the layer above as sent by peerA to the relayed
\* address
C18_Witness ==
    /\ nIn = 1
    /\ nApp = 0
    /\ cbStun = <<[local |-> RelayAddress, from |-> "peerA",
                   m |-> Msg("Binding", "request", "idA")]>>

\* the Data indications that are malformed or unexpected: one that does not
\* come from the TURN server, one without DATA, one with an empty DATA and one
\* without XOR-PEER-ADDRESS
Malformed ==
    LET di == Msg("Data", "indication", "idB") IN
    {[from |-> "peerA",
      d |-> Raw([di EXCEPT !.peer = "peerA", !.dkind = "raw", !.dbytes = "d1"])],
     [from |-> ServerAddr, d |-> Raw([di EXCEPT !.peer = "peerA"])],
     [from |-> ServerAddr,
      d |-> Raw([di EXCEPT !.peer = "peerA", !.dkind = "empty"])],
     [from |-> ServerAddr,
      d |-> Raw([di EXCEPT !.dkind = "raw", !.dbytes = "d1"])]}

\* C19: a malformed or unexpected Data indication (here: one whose id no
\* waiter is registered under) is dropped: no callback is invoked, nothing of
\* the socket's state changes and the read task goes on; no datagram that
\* comes in makes the read task panic.
C19_MalformedDropped ==
    [][/\ \A g \in Malformed :
             (Handles(g) /\ waiters["idB"] = 0)
                => /\ ~tPanic'
                   /\ UNCHANGED <<waiters, cachedResponse, wire, delivered,
                                  cbStun, cbData, mode>>
       /\ nIn' # nIn => ~tPanic']_vars

\* the ChannelBind requests on the wire
IsChannelBind(p) == p.d.stun /\ p.d.m.method = "ChannelBind"

\* C20: the first ChannelBind request carries CHANNEL-NUMBER 0x4000 and every
\* later ChannelBind request for another peer carries a strictly larger number,
\* so that no two peers are bound to the same channel number.
C20_ChannelNumbersMonotonic ==
    [][/\ \A p \in NewWire :
             IsChannelBind(p) =>
                /\ (\A k \in 1..Len(wire) : ~IsChannelBind(wire[k]))
                       => p.d.m.chan = 16384
                /\ \A k \in 1..Len(wire) :
                       (IsChannelBind(wire[k]) /\ wire[k].d.m.peer # p.d.m.peer)
                          => p.d.m.chan > wire[k].d.m.chan
       /\ \A a, b \in Peers :
             (a # b /\ address2ChannelNumber'[a] # 0)
                => address2ChannelNumber'[a] # address2ChannelNumber'[b]]_vars

\* C21: after any sequence of channel bindings the peer-to-channel map and the
\* channel-to-peer map are inverses of each other and every bound channel
\* number lies in [0x4000, 0x7FFF], so that ChannelData that comes in on
\* channel n is attributed to the one peer whose data goes out on channel n.
C21_ChannelMapsInverse ==
    /\ \A a \in Peers :
          address2ChannelNumber[a] # 0
             => /\ address2ChannelNumber[a] >= 16384
                /\ address2ChannelNumber[a] <= 32767
                /\ ChannelPeer(address2ChannelNumber[a]) = a
    /\ \A n \in ChanNos :
          channelNumber2Address[n] # "none"
             => address2ChannelNumber[channelNumber2Address[n]] = n

\* sendStunMessageSync handed back a ChannelBind success response
BindSucceeded(res) ==
    res.err = "nil" /\ res.method = "ChannelBind" /\ res.class = "success"

\* C22: channelBind records the mapping only when the server answered with a
\* ChannelBind success response; after a timeout, an error response or a
\* response of another method it returns an error and leaves both channel maps
\* as they were.
C22_BindOnlyOnSuccess ==
    [][\A addr \in Peers, res \in BindResults :
          (nApp' # nApp /\ ChannelBindOn(addr, res) /\ ~BindSucceeded(res))
             => /\ appRet' # "nil"
                /\ UNCHANGED <<channelNumber2Address, address2ChannelNumber>>]_vars

\* the keepalive indications: a Binding indication and a Send indication
BindingIndicationIn == [from |-> "peerA", d |-> Raw(Msg("Binding", "indication", "idA"))]
SendIndicationIn == [from |-> "peerA", d |-> Raw(Msg("Send", "indication", "idB"))]

\* C28: a Binding indication or a Send indication that comes in is dropped in
\* every mode: it goes to no waiter, makes the socket resend no cached
\* response, reaches neither callback and changes nothing of the socket's
\* state.
C28_IndicationsDropped ==
    [][\A g \in {BindingIndicationIn, SendIndicationIn} :
          Handles(g) =>
             UNCHANGED <<waiters, cachedResponse, wire, delivered, cbStun,
                         cbData, parked, mode, channelNumber2Address,
                         address2ChannelNumber, tPanic, tBlocked>>]_vars

\* in StunData mode, with a waiter registered under idB, two datagrams were
\* read that left no trace: in this mode every other datagram reaches the
\* waiter or a callback
C28_Witness ==
    /\ nIn = 2
    /\ mode = "stunModeData"
    /\ waiters["idB"] # 0 /\ waiters["idB"] \in parked
    /\ cbStun = <<>> /\ cbData = <<>> /\ delivered = <<>>
    /\ Len(wire) = 1
    /\ ~tPanic /\ ~tBlocked

\* the Send indication that carries the Binding request t to peerA
RelayedRequest(t) ==
    [to |-> ServerAddr,
     d |-> Raw([Msg("Send", "indication", "idN")
                   EXCEPT !.peer = "peerA", !.dkind = "stun",
                          !.imethod = "Binding", !.iclass = "request",
                          !.itid = t])]
\* a synchronous send of the request idA from the relayed address waits, and
\* the Data indication whose payload is the response of class c with the id idA
\* comes in: the call gets the payload as its response
CompletesWithInner(c) ==
    NewDelivered = {[ch |-> waiters["idA"], from |-> "peerA",
                     m |-> Msg("Binding", c, "idA")]}
RelayedCallWaits ==
    /\ waiters["idA"] # 0
    /\ waiters["idA"] \in parked
    /\ \E k \in 1..Len(wire) : wire[k] = RelayedRequest("idA")
\* a synchronous send from the relayed address puts the request on the wire
\* inside a Send indication to the TURN server, with XOR-PEER-ADDRESS = the
\* destination, and registers the waiter under the request's id
WrappedAndKeyed ==
    \A t \in TxIds :
        (nApp' # nApp /\ SyncParksOn(t, RelayAddress))
           => /\ wire' = Append(wire, RelayedRequest(t))
              /\ waiters'[t] = nApp + 1
              /\ \A u \in TxIds \ {t} : waiters'[u] = waiters[u]

\* C30 as stated: a synchronous request sent from the relayed address is
\* wrapped in a Send indication (XOR-PEER-ADDRESS = destination, DATA = the
\* request) that goes from the bound address to the TURN server, also when the
\* destination is bound to a channel; its waiter is keyed by the request's id,
\* and the call completes with the payload of a Data indication whose payload
\* carries the request's id.
C30_RelayedSyncAlways ==
    [][/\ WrappedAndKeyed
       /\ \A c \in {"success", "error"} :
             (Handles(DataIndicationOf(c)) /\ RelayedCallWaits)
                => CompletesWithInner(c)]_vars

\* C30, amended: the same, for a Data indication whose own transaction id no
\* synchronous send has a waiter registered under
C30_RelayedSync ==
    [][/\ WrappedAndKeyed
       /\ \A c \in {"success", "error"} :
             (Handles(DataIndicationOf(c)) /\ RelayedCallWaits
                                           /\ waiters["idB"] = 0)
                => CompletesWithInner(c)]_vars

\* a response sent long ago is cached under idA; a synchronous send from the
\* relayed address got the payload of a Data indication as its response.  The
\* cache is looked at, and the old entry removed, only for a message that finds
\* no waiter, as the Data indication itself does: a response that comes in
\* straight from peerA would have left the entry where it was.
C30_Witness ==
    /\ nIn = 1
    /\ Len(wire) = 2
    /\ wire[1] = [to |-> "peerA", d |-> Raw(Msg("Binding", "success", "idA"))]
    /\ wire[2] = RelayedRequest("idA")
    /\ cachedResponse["idA"] = NoCached
    /\ delivered = <<[ch |-> 2, from |-> "peerA",
                      m |-> Msg("Binding", "success", "idA")]>>


\* the entries this step appends to the logs of the two callbacks and of the
\* waiter channels, with their multiplicity
StunCalls == SubSeq(cbStun', Len(cbStun) + 1, Len(cbStun'))
DataCalls == SubSeq(cbData', Len(cbData) + 1, Len(cbData'))
Deliveries == SubSeq(delivered', Len(delivered) + 1, Len(delivered'))
\* the frame itself goes neither to a waiter nor to the message callback, and
\* no waiter under its transaction id is taken
FrameNotDispatched(c) ==
    /\ \A i \in 1..Len(StunCalls) : StunCalls[i].m.method # "ChannelData"
    /\ \A i \in 1..Len(Deliveries) : Deliveries[i].m.method # "ChannelData"
    /\ waiters'[c.d.m.tid] = waiters[c.d.m.tid]
    /\ tBlocked' = tBlocked
\* the payload is delivered once: bytes to the data callback, an encoded
\* STUN message to the waiter, the cache or the message callback
PayloadOnce(c) ==
    IF c.d.m.dkind = "raw"
    THEN Len(DataCalls) = 1 /\ Len(StunCalls) = 0 /\ Len(Deliveries) = 0
    ELSE Len(DataCalls) = 0 /\ Len(StunCalls) + Len(Deliveries) <= 1

\* C31: in TurnData mode a ChannelData frame on a bound channel delivers its
\* payload once, and the frame itself is not matched against the waiters or
\* the cache and is not handed to the message callback; a frame on an unbound
\* channel, and any frame in Negotiation mode, reaches no callback
C31_ChannelDataOnce ==
    [][\A c \in ChannelDatas :
          Handles(c)
          => IF mode = "stageNegotiation"
             THEN Len(StunCalls) = 0 /\ Len(DataCalls) = 0
             ELSE IF mode = "turnModeData"
             THEN IF ChannelPeer(c.d.m.chan) = "none"
                  THEN Len(StunCalls) = 0 /\ Len(DataCalls) = 0
                  ELSE /\ FrameNotDispatched(c)
                       /\ c.d.m.dkind # "none" => PayloadOnce(c)
             ELSE TRUE]_vars

\* Binding messages that come straight from a peer, and a Data indication
\* with plain bytes: each passes stunMessageReceived once
OnePass ==
    {[from |-> "peerA", d |-> Raw(Msg("Binding", c, "idA"))] :
        c \in {"request", "success", "error"}}
      \cup {DataIndicationRaw}
\* the three ways stunMessageReceived disposes of the message of g: it goes to
\* the waiter under its id, which is removed (a waiter nobody receives on
\* holds the read task); the cached response with its method and id is sent
\* again to where it came from; it goes to the message callback
ToWaiter(g) ==
    /\ waiters' = [waiters EXCEPT ![g.d.m.tid] = 0]
    /\ \/ Deliveries = <<Response(waiters[g.d.m.tid], g.from, g.d.m)>>
       \/ Deliveries = <<>> /\ tBlocked'
    /\ StunCalls = <<>>
    /\ DataCalls = <<>>
    /\ wire' = wire
FromCache(g) ==
    /\ \E id \in TxIds :
          /\ cachedResponse[id].m.method = g.d.m.method
          /\ cachedResponse[id].m.tid = g.d.m.tid
          /\ wire' = Append(wire, Packet(g.from, Raw(cachedResponse[id].m)))
    /\ waiters' = waiters
    /\ Deliveries = <<>>
    /\ StunCalls = <<>>
    /\ DataCalls = <<>>
ToCallback(g) ==
    /\ waiters' = waiters
    /\ Deliveries = <<>>
    /\ wire' = wire
    /\ IF g.d.m.method = "Data"
       THEN StunCalls = <<>> /\ Len(DataCalls) = 1
       ELSE StunCalls = <<UpStun(Addr, g.from, g.d.m)>> /\ DataCalls = <<>>

\* C32: a STUN message other than ChannelData that reaches
\* stunMessageReceived goes to the waiter registered under its transaction
\* id if there is one, else it is answered from the response cache if that
\* holds a response with its method and id, else it goes to the message
\* callback; whatever went to a waiter or was answered from the cache does
\* not reach the callback
C32_DispatchExclusive ==
    [][\A g \in OnePass :
          (Handles(g) /\ ~tBlocked)
          => IF waiters[g.d.m.tid] # 0 THEN ToWaiter(g)
             ELSE IF CachedResponseFound(Here, g.d.m) THEN FromCache(g)
             ELSE ToCallback(g)]_vars

\* a Binding request went to the callback, the response of the layer above
\* was cached, and the same request came again and was answered from the cache
C32_Witness ==
    /\ nIn = 2
    /\ cbStun = <<UpStun(Addr, "peerA", Msg("Binding", "request", "idA"))>>
    /\ Len(wire) = 2
    /\ wire[1] = Packet("peerA", Raw(Msg("Binding", "success", "idA")))
    /\ wire[2] = wire[1]
    /\ delivered = <<>>

(***************************************************************************)
(* turnServerSock: Close, refresh and keepalive                            *)
(***************************************************************************)
\* the packet that carries a RefreshRequest with LIFETIME l to the TURN server
RefreshPacket(l) ==
    Packet(ServerAddr,
           Raw(WithLife(Msg("Refresh", "request", NewTransactionID), l)))
KeepAlivePacket ==
    Packet(ServerAddr, Raw(Msg("Binding", "indication", NewTransactionID)))
Released(w) == \E i \in 1..Len(w) : w[i] = RefreshPacket(0)
TsCloses == stopchan = "open" /\ stopchan' = "closed"
RefreshReturns == rfPc = "wait" /\ rfPc' # "wait"

\* C23: when a TURN socket whose allocation has not been released is closed,
\* a RefreshRequest with LIFETIME=0 has gone to the TURN server by the time
\* the underlying socket stops sending
C23_CloseReleasesAllocation ==
    [][(TsCloses /\ ~Released(wire)) => Released(wire')]_vars

\* C24: when a refresh is answered with a Stale Nonce error, the stored nonce
\* becomes the NONCE of the response and the request is sent again
C24_StaleNonceRecovered ==
    [][(RefreshReturns /\ rfRes' \in StaleNonceResults)
        => (nonce' = rfRes'.nonce /\ rfPc' = "send")]_vars

\* FinishNegotiation starts the keepalive loop and, by the mode, the periodic
\* refresh or the single release
LoopsStarted ==
    (~finished /\ finished')
    => /\ kaPc' = "send"
       /\ rfPc' = "send"
       /\ rfLoop' = (mode' = "turnModeData")
\* a request refreshRequest builds carries the stored lifetime in TurnData
\* mode and LIFETIME=0 otherwise, where it is the only one; it goes to the
\* TURN server unless the socket is closed
RefreshCarries ==
    Len(rlog') > Len(rlog)
    => LET e == rlog'[Len(rlog')]
       IN /\ e.life = IF mode = "turnModeData" THEN lifetime ELSE 0
          /\ mode # "turnModeData" => Len(rlog) = 0
          /\ wire' = IF e.sent THEN Append(wire, RefreshPacket(e.life))
                     ELSE wire
          /\ e.sent = (stopchan = "open")
\* the stored lifetime is the one of the last RefreshResponse: a refresh that
\* fails or is answered with an error leaves it alone
LifetimeGranted ==
    /\ lifetime' # lifetime => RefreshReturns
    /\ RefreshReturns
       => lifetime' = IF rfRes'.kind = "success" THEN rfRes'.life
                      ELSE lifetime
\* the periodic refresh waits half the stored lifetime; the release does not
\* wait at all
HalfLifetime ==
    /\ rfPc' = "select" => (mode' = "turnModeData" /\ 2 * rfEvery' = lifetime')
\* keepAlive sends a Binding indication to the TURN server unless the socket
\* is closed
KeepAliveCarries ==
    nKeep' > nKeep
    => wire' = IF stopchan = "open" THEN Append(wire, KeepAlivePacket)
               ELSE wire
\* the loops end by Close only, and after Close nothing is sent
UntilClose ==
    /\ kaPc' = "done" => stopchan' = "closed"
    /\ (rfPc' = "done" /\ mode' = "turnModeData") => stopchan' = "closed"
    /\ stopchan = "closed" => wire' = wire
LoopsStopped ==
    tPanic \/ (kaPc \in {"none", "done"} /\ rfPc \in {"none", "done"})
LoopsRun == tPanic \/ (nKeep >= 1 /\ Len(rlog) >= 1)

LastCodecOp == codecOps[Len(codecOps)]
CodecCalls(op) == codecOps' # codecOps /\ LastCodecOp' = op
\* the ERROR-CODE value for a code and a reason: two zero bytes, the class,
\* the number, the reason
ErrorCodeBytes(code, reason) ==
    <<0, 0, code \div 100, code % 100>> \o reason
\* the numbers the error taxonomy gives to the named codes
Taxonomy ==
    {<<CodeStaleNonce, 438>>, <<CodeRoleConflict, 487>>,
     <<CodeUnauthorised, 401>>, <<CodeForbidden, 403>>,
     <<CodeAllocMismatch, 437>>, <<CodeWrongCredentials, 441>>,
     <<CodeUnsupportedTransProto, 442>>, <<CodeAllocQuotaReached, 486>>,
     <<CodeInsufficientCapacity, 508>>}

\* C25: the ERROR-CODE that ErrorCode.AddTo writes for a named code carries
\* the class and the number of the taxonomy: 4 and 38 for Stale Nonce, 4 and
\* 87 for Role Conflict, and 401, 403, 437, 441, 442, 486, 508 for the others
C25_NamedCodeNumbers ==
    \A p \in Taxonomy :
        (codecOps = <<"ErrorCode.AddTo">> /\ codecIn.code = p[1])
        => /\ codecErr = CodecNil
           /\ Len(codecMsg) = 1
           /\ codecMsg[1].t = AttrErrorCode
           /\ codecMsg[1].v[errorCodeClassByte + 1] = p[2] \div 100
           /\ codecMsg[1].v[errorCodeNumberByte + 1] = p[2] % 100

InRange == codecIn.kind = "ErrorCode" /\ codecIn.code \in 300..699
ErrorCodeGot ==
    \/ codecOps = <<"ErrorCodeAttribute.AddTo", "ErrorCodeAttribute.GetFrom">>
    \/ codecOps = <<"ErrorCodeAttribute.AddTo", "Message.Write",
                    "ErrorCodeAttribute.GetFrom">>

\* C26: for a code in 300..699 and a reason of at most 763 bytes,
\* ErrorCodeAttribute.AddTo adds the value (0, 0, code div 100, code mod 100,
\* reason) and GetFrom on the message, as it is or after it went over the
\* wire, gives the code and the reason back; a longer reason gives
\* AttrOverflow and no attribute; ErrorCode.AddTo of a code without default
\* reason gives ErrNoDefaultReason and no attribute
C26_ErrorCodeRoundTrip ==
    /\ (InRange /\ codecOps = <<"ErrorCodeAttribute.AddTo">>
            /\ Len(codecIn.bytes) <= 763)
       => /\ ~codecPanic
          /\ codecErr = CodecNil
          /\ codecMsg = <<Attribute(AttrErrorCode,
                                    ErrorCodeBytes(codecIn.code,
                                                   codecIn.bytes))>>
    /\ (InRange /\ ErrorCodeGot /\ Len(codecIn.bytes) <= 763)
       => /\ codecErr = CodecNil
          /\ codecCode = ErrorCodeValue(codecIn.code, codecIn.bytes)
    /\ (InRange /\ codecOps = <<"ErrorCodeAttribute.AddTo">>
            /\ Len(codecIn.bytes) > 763)
       => /\ codecErr.kind = "AttrOverflow"
          /\ codecMsg = <<>>
    /\ (codecOps = <<"ErrorCode.AddTo">> /\ codecIn.code \notin NamedCodes)
       => /\ codecErr.kind = "ErrNoDefaultReason"
          /\ codecMsg = <<>>

TokenAbsent == ~MessageHas(codecMsg, AttrReservationToken)
TokenStored == MessageGet(codecMsg, AttrReservationToken)
\* AddTo of a token that is not 8 bytes long
TokenRefused ==
    (CodecCalls("ReservationToken.AddTo") /\ Len(codecIn.bytes) # 8)
    => /\ codecErr' = CodecErr("BadAttrLength", 8, Len(codecIn.bytes))
       /\ codecMsg' = codecMsg
\* AddTo of a token of 8 bytes
TokenAdded ==
    (CodecCalls("ReservationToken.AddTo") /\ Len(codecIn.bytes) = 8)
    => /\ codecErr' = CodecNil
       /\ codecMsg' = Append(codecMsg,
                             Attribute(AttrReservationToken, codecIn.bytes))
\* GetFrom on a message without the attribute, with a stored value that is
\* not 8 bytes long, and with one that is
TokenRead ==
    CodecCalls("ReservationToken.GetFrom")
    => IF TokenAbsent
       THEN /\ codecErr' = CodecErr("ErrAttributeNotFound", 0, 0)
            /\ codecToken' = codecToken
       ELSE IF Len(TokenStored) # 8
       THEN /\ codecErr' = CodecErr("BadAttrLength", 8, Len(TokenStored))
            /\ codecToken' = codecToken
       ELSE /\ codecErr' = CodecNil
            /\ codecToken' = TokenStored
TokenRoundTrip ==
    (codecOps = <<"ReservationToken.AddTo", "Message.Write",
                  "ReservationToken.GetFrom">> /\ Len(codecIn.bytes) = 8)
    => (codecErr = CodecNil /\ codecToken = codecIn.bytes)

\* C27: ReservationToken.AddTo of a token that is not 8 bytes long returns
\* BadAttrLength(8, len) and leaves the message as it was; AddTo of 8 bytes,
\* the message encoded and decoded, and GetFrom give the same 8 bytes;
\* GetFrom returns ErrAttributeNotFound without the attribute and
\* BadAttrLength for a stored value that is not 8 bytes long, and leaves the
\* destination as it was in both cases
C27_ReservationToken ==
    /\ [][TokenRefused /\ TokenAdded /\ TokenRead]_vars
    /\ []TokenRoundTrip

\* an 8-byte token went through AddTo, the wire and GetFrom and replaced what
\* the destination held
C27_Witness ==
    /\ codecOps = <<"ReservationToken.AddTo", "Message.Write",
                    "ReservationToken.GetFrom">>
    /\ Len(codecIn.bytes) = 8
    /\ codecToken = codecIn.bytes
    /\ codecToken # OldToken
    /\ Len(Encode(codecMsg)) = 12
=============================================================================
